---- MODULE Spec2Model ----
(***************************************************************************)
(* Model of baryon-lang: the S-expression parser (internal/parser) that    *)
(* turns a lexer token stream into an ast.Program, and the transpiler      *)
(* backends (internal/transpiler) that turn an ast.Program into text.      *)
(*                                                                         *)
(* SpecParse     : lexer token stream -> Parser.ParseProgram               *)
(* SpecTranspile : ast.Program -> <backend>.Transpile                      *)
(* SpecRuns      : Transpile called twice for one program                  *)
(* SpecLex       : source text -> Lexer.Token()                            *)
(* SpecReparse   : ParseProgram on an input and on a variant of it         *)
(* SpecCLI       : main: read, parse, transpile, write                     *)
(***************************************************************************)
EXTENDS Integers, Sequences, FiniteSets, TLC

VARIABLES
    src,            \* how the source text was written (ghost: the declared elements)
    toks,           \* lexer.Token() output for the source, without the final EOF
    pc,             \* position of ParseProgram
    ntIdx,          \* next element the pulled iterator p.nextToken yields
    currentToken,   \* Parser.currentToken
    peekToken,      \* Parser.peekToken
    errors,         \* Parser.errors
    stack,          \* open frames of the recursion of parseSExprNode
    root,           \* the *SExpr returned by parseSExpr
    program,        \* the *ast.Program under construction / returned
    bodyIdx,        \* index of the range loop over programBody.Children
    result,         \* (program, err) returned by ParseProgram
    backend,        \* name the Transpiler instance is registered under
    tprog,          \* the *ast.Program handed to Transpile
    tpc,            \* position of Transpile
    Buffer,         \* TranspilerBase.Buffer, one entry per line written
    IndentLevel,    \* TranspilerBase.IndentLevel
    galaxyTool,     \* GalaxyTranspiler.galaxyTool
    calls,          \* ghost: validators and handlers invoked so far
    stages,         \* ghost: the steps of Transpile taken so far
    tresult,        \* (string, error) returned by Transpile
    runs,           \* ghost: what the earlier Transpile calls on tprog returned
    lsrc,           \* ghost: the elements and separators the lexer's input was written from
    lexer,          \* the *Lexer: input, position, readPosition, ch, line, column
    yielded,        \* the tokens l.Token() has yielded so far
    lpc,            \* position of the iterator l.Token()
    parses,         \* ghost: what ParseProgram returned for the input parsed before
    cpc,            \* position of main
    fs,             \* the files main writes: the destination path and path + ".tmp"
    exitCode        \* exit status of the process, -1 while it runs

pvars == <<src, toks, pc, ntIdx, currentToken, peekToken, errors, stack,
           root, program, bodyIdx, result>>

tvars == <<backend, tprog, tpc, Buffer, IndentLevel, galaxyTool, calls, stages,
           tresult, runs>>

lvars == <<lsrc, lexer, yielded, lpc>>

cvars == <<parses, cpc, fs, exitCode>>

vars == <<pvars, tvars, lvars, cvars>>

----------------------------------------------------------------------------
(* Bounds *)

MaxBody == 3        \* body elements of a generated program
MaxEnum == 2        \* values written in an enum list
MaxRaw  == 4        \* length of an arbitrary token sequence
MaxInput == 3        \* characters of a lexer input written freely
MaxElems == 2        \* lexical elements of a lexer input written element by element
MaxParams == 2      \* parameters of a program handed to Transpile
MaxImpls  == 2      \* implementation blocks of a program handed to Transpile
MaxTrail  == 2      \* tokens written after the first top-level form
MaxFields == 2      \* volume pairs, and arguments, written in a run_docker block
MaxJunk   == 2      \* tokens of an input file that holds no program

----------------------------------------------------------------------------
(* lexer.Token *)

TOKEN_ILLEGAL    == "ILLEGAL"
TOKEN_EOF        == "EOF"
TOKEN_LPAREN     == "LPAREN"
TOKEN_RPAREN     == "RPAREN"
TOKEN_IDENTIFIER == "IDENTIFIER"
TOKEN_STRING     == "STRING"
TOKEN_COMMENT    == "COMMENT"

Token(t, l) == [Type |-> t, Literal |-> l]

LP      == Token(TOKEN_LPAREN, "(")
RP      == Token(TOKEN_RPAREN, ")")
Id(s)   == Token(TOKEN_IDENTIFIER, s)
Str(s)  == Token(TOKEN_STRING, s)
Cmt(s)  == Token(TOKEN_COMMENT, s)

\* the zero value Token{} of Go, and Token{Type: TOKEN_EOF}
ZeroToken == [Type |-> TOKEN_ILLEGAL, Literal |-> "", Pos |-> 0]
EOFToken  == [Type |-> TOKEN_EOF, Literal |-> "", Pos |-> 0]

\* The sequence the iterator l.Token() yields for a source whose tokens are
\* ts: every token with its position, then one EOF token, then nothing.
TokenStream(ts) ==
    [i \in 1..(Len(ts) + 1) |->
        IF i <= Len(ts)
        THEN [Type |-> ts[i].Type, Literal |-> ts[i].Literal, Pos |-> i]
        ELSE [Type |-> TOKEN_EOF, Literal |-> "", Pos |-> i]]


----------------------------------------------------------------------------
(* lexer.Lexer: the scanner.  The input is a sequence of one-character     *)
(* strings; positions count from 0 as in Go.                               *)

TOKEN_NUMBER     == "NUMBER"
TOKEN_CHARACTER  == "CHARACTER"

\* the byte 0, which readChar and peekChar also give at the end of the input
NUL == "NUL"

isLetter(ch) == ch \in {"a", "b"}
isDigit(ch)  == ch \in {"1", "2"}

\* &Lexer{input: input, line: 1}
Lexer(inp) ==
    [input |-> inp, position |-> 0, readPosition |-> 0, ch |-> NUL, line |-> 1,
     column |-> 0, panicked |-> FALSE]

peekChar(l) ==
    IF l.readPosition >= Len(l.input) THEN NUL ELSE l.input[l.readPosition + 1]

RECURSIVE readChar(_)
readChar(l) ==
    LET startColumn == l.column
        c == IF l.readPosition >= Len(l.input) THEN NUL ELSE l.input[l.readPosition + 1]
        \* position, readPosition, and the line and column updates for c
        advance(l1) ==
            IF c = "\r" /\ peekChar(l1) = "\n" THEN readChar(l1)
            ELSE IF c = "\r" THEN [l1 EXCEPT !.line = @ + 1, !.column = 0]
            ELSE l1
        \* the two corrections of a column left at 0
        fix(l2) ==
            IF startColumn > 0 /\ l2.column = 0 THEN [l2 EXCEPT !.column = 1]
            ELSE IF startColumn = 0 /\ l2.column = 0 /\ l2.ch # NUL
                 THEN [l2 EXCEPT !.column = 1]
            ELSE l2
    IN fix(advance([l EXCEPT !.ch = c,
                             !.position = l.readPosition,
                             !.readPosition = l.readPosition + 1,
                             !.line = IF c = "\n" THEN @ + 1 ELSE @,
                             !.column = IF c = "\n" THEN 0 ELSE @ + 1]))

RECURSIVE skipWhitespace(_)
skipWhitespace(l) ==
    IF l.ch \in {" ", "\t", "\n", "\r"} THEN skipWhitespace(readChar(l)) ELSE l

\* l.input[a:b], with the lexer after it: a slice outside the input panics
inputSlice(l, a, b) ==
    IF 0 <= a /\ a <= b /\ b <= Len(l.input)
    THEN [l |-> l, str |-> SubSeq(l.input, a + 1, b)]
    ELSE [l |-> [l EXCEPT !.panicked = TRUE], str |-> <<>>]

\* the for loop of readString, up to its break
RECURSIVE readStringLoop(_, _)
readStringLoop(l, quoteType) ==
    LET prevCh == l.ch
        after(l1) ==
            IF l1.ch = quoteType
            THEN (IF prevCh = "\\" THEN readStringLoop(l1, quoteType) ELSE l1)
            ELSE IF l1.ch = NUL THEN l1
            ELSE IF l1.ch = "\\" /\ peekChar(l1) = quoteType
                 THEN readStringLoop(readChar(l1), quoteType)
            ELSE readStringLoop(l1, quoteType)
    IN after(readChar(l))

readString(l, quoteType) ==
    LET position == l.position + 1
        cut(e) == inputSlice(e, position, e.position)
        close(r) == [l |-> IF r.l.ch = quoteType THEN readChar(r.l) ELSE r.l, str |-> r.str]
    IN close(cut(readStringLoop(l, quoteType)))

RECURSIVE readCommentLoop(_)
readCommentLoop(l) ==
    IF l.ch # "\n" /\ l.ch # "\r" /\ l.ch # NUL THEN readCommentLoop(readChar(l)) ELSE l

readComment(l) ==
    LET cut(e) == inputSlice(e, l.position + 1, e.position)
    IN cut(readCommentLoop(l))

\* a backtrack that is not followed by the readChar for the next token
backtrack_noReadChar(l, position) ==
    LET cut(l1) == inputSlice(l1, position, l1.readPosition)
        back(prev) == [l EXCEPT !.readPosition = @ - 1,
                                !.position = @ - 1,
                                !.line = IF prev = "\n" THEN @ - 1 ELSE @,
                                !.column = IF prev = "\n" THEN 0 ELSE @ - 1,
                                !.ch = prev]
    IN IF l.position - 1 < 0 \/ l.position - 1 >= Len(l.input)
       THEN [l |-> [l EXCEPT !.panicked = TRUE], str |-> <<>>]
       ELSE cut(back(l.input[l.position]))

\* the backtrack by one character that ends readIdentifier and readNumber,
\* the slice of the word read from position on, and the readChar after it
backtrack(l, position) ==
    LET cut(l1) == inputSlice(l1, position, l1.readPosition)
        next(r) == [l |-> IF r.l.panicked THEN r.l ELSE readChar(r.l), str |-> r.str]
        back(prev) == [l EXCEPT !.readPosition = @ - 1,
                                !.position = @ - 1,
                                !.line = IF prev = "\n" THEN @ - 1 ELSE @,
                                !.column = IF prev = "\n" THEN 0 ELSE @ - 1,
                                !.ch = prev]
    IN IF l.position - 1 < 0 \/ l.position - 1 >= Len(l.input)
       THEN [l |-> [l EXCEPT !.panicked = TRUE], str |-> <<>>]
       ELSE next(cut(back(l.input[l.position])))

RECURSIVE readIdentifierLoop(_)
readIdentifierLoop(l) ==
    IF isLetter(l.ch) \/ isDigit(l.ch) \/ l.ch = "_"
    THEN readIdentifierLoop(readChar(l)) ELSE l

readIdentifier(l) ==
    backtrack(IF isLetter(l.ch) \/ l.ch = "_" THEN readIdentifierLoop(readChar(l)) ELSE l,
              l.position)

RECURSIVE readNumberLoop(_, _)
readNumberLoop(l, hasDot) ==
    IF isDigit(l.ch) \/ (l.ch = "." /\ ~hasDot)
    THEN readNumberLoop(readChar(l), hasDot \/ l.ch = ".") ELSE l

readNumber(l) == backtrack(readNumberLoop(l, FALSE), l.position)

\* one pass of the for loop of Token(): the token it yields (with the
\* positions of its first character and of the character after it) and the
\* lexer after it
nextToken(l0) ==
    LET token(l, r) ==
            [l   |-> r.l,
             tok |-> [Type |-> r.type, Literal |-> r.str, Line |-> l.line,
                      Column |-> l.column, first |-> l.position, next |-> r.l.position]]
        many(type, r) == [l |-> r.l, str |-> r.str, type |-> type]
        switch(l, currentChar) ==
            LET one(type) == [l |-> readChar(l), str |-> <<currentChar>>, type |-> type]
            IN CASE currentChar = "("  -> one(TOKEN_LPAREN)
                 [] currentChar = ")"  -> one(TOKEN_RPAREN)
                 [] currentChar = "\"" -> many(TOKEN_STRING, readString(l, "\""))
                 [] currentChar = "'"  -> many(TOKEN_CHARACTER, readString(l, "'"))
                 [] currentChar = ";"  -> many(TOKEN_COMMENT, readComment(l))
                 [] currentChar = NUL  -> [l |-> l, str |-> <<>>, type |-> TOKEN_EOF]
                 [] OTHER ->
                      IF isLetter(currentChar) \/ currentChar = "_"
                      THEN many(TOKEN_IDENTIFIER, readIdentifier(l))
                      ELSE IF isDigit(currentChar)
                           THEN many(TOKEN_NUMBER, readNumber(l))
                      ELSE one(TOKEN_ILLEGAL)
        pass(l) == token(l, switch(l, l.ch))
    IN pass(skipWhitespace(l0))

\* no lexer exists
LexIdle ==
    /\ lsrc = [family |-> "none"]
    /\ lexer = Lexer(<<>>)
    /\ yielded = <<>>
    /\ lpc = "off"

\* yield(tok) for a token that is not the end of the input; a run-time panic
\* inside the read functions ends the iteration
YieldToken ==
    LET yield(r) ==
            /\ r.tok.Type # TOKEN_EOF
            /\ lexer' = r.l
            /\ IF r.l.panicked
               THEN lpc' = "panic" /\ UNCHANGED yielded
               ELSE yielded' = Append(yielded, r.tok) /\ UNCHANGED lpc
    IN /\ lpc = "Token"
       /\ yield(nextToken(lexer))
       /\ UNCHANGED lsrc
       /\ UNCHANGED <<pvars, tvars, cvars>>

\* yield(tok) for TOKEN_EOF, and the break that follows it
YieldEOF ==
    LET yield(r) ==
            /\ r.tok.Type = TOKEN_EOF
            /\ lexer' = r.l
            /\ yielded' = Append(yielded, r.tok)
    IN /\ lpc = "Token"
       /\ yield(nextToken(lexer))
       /\ lpc' = "done"
       /\ UNCHANGED lsrc
       /\ UNCHANGED <<pvars, tvars, cvars>>

----------------------------------------------------------------------------
(* Writing a source text, as a token sequence *)

RECURSIVE Cat(_)
Cat(ss) == IF ss = <<>> THEN <<>> ELSE Head(ss) \o Cat(Tail(ss))

Paren(ts) == <<LP>> \o ts \o <<RP>>

RECURSIVE MapSeq(_, _)
MapSeq(F(_), s) == IF s = <<>> THEN <<>> ELSE <<F(Head(s))>> \o MapSeq(F, Tail(s))

\* sequences over S of length 0..n
RECURSIVE SeqsUpTo(_, _)
SeqsUpTo(S, n) ==
    IF n = 0 THEN {<<>>}
    ELSE LET shorter == SeqsUpTo(S, n - 1)
         IN shorter \cup {Append(s, x) : s \in {t \in shorter : Len(t) = n - 1}, x \in S}

\* A declared body element.
Elem(kind, name, type, values, image) ==
    [kind |-> kind, name |-> name, type |-> type, values |-> values, image |-> image]

DescElem       == Elem("desc", "desc", "", <<>>, "A test program")
DockerElem     == Elem("run_docker", "run_docker", "", <<"p1", "--flag">>, "ubuntu:latest")
ParamElem(n, t) == Elem("param", n, t, <<>>, "")
EnumNested(n, vs) == Elem("enumNested", n, "enum", vs, "")
EnumInline(n, vs) == Elem("enumInline", n, "enum", vs, "")
OutputsElem(k)  == Elem("outputs", "outputs", "", [i \in 1..k |-> "out"], "")
\* (name type (desc d) (key "value"))
ParamMeta(n, t, key, value) == Elem("paramMeta", n, t, <<key, value>>, "")
\* (run_docker (image i) (arguments a1 ... am))
DockerFlat(args) == Elem("dockerFlat", "run_docker", "", args, "ubuntu:latest")
\* (run_docker (image i) (volumes ((h1 c1) ... (hn cn))) (arguments (a1 ... am)))
DockerFields(volumes, args) ==
    [kind |-> "dockerFields", name |-> "run_docker", type |-> "", values |-> args,
     image |-> "ubuntu:latest", volumes |-> volumes]

ParamDesc(n) == IF n = "p1" THEN "A string param" ELSE "another param"

RenderElem(e) ==
    LET ArgTok(a)   == IF a = "p1" \/ a = "p2" THEN Id(a) ELSE Str(a)
        OutEntry(o) == Paren(<<Id(o), Id("txt"), Id("path")>>)
        NameTok(a)  == IF a \in {"p1", "p2", "p4"} THEN Id(a) ELSE Str(a)
        VolumeEntry(v) == Paren(<<Str(v[1]), Str(v[2])>>)
    IN
    CASE e.kind = "desc" -> Paren(<<Id("desc"), Str(e.image)>>)
      [] e.kind = "run_docker" ->
            Paren(<<Id("run_docker")>>
                  \o (IF e.image = "" THEN <<>> ELSE Paren(<<Id("image"), Str(e.image)>>))
                  \o Paren(<<Id("command"), Str("echo hello")>>)
                  \o (IF e.values = <<>> THEN <<>>
                      ELSE Paren(<<Id("arguments")>> \o Paren(MapSeq(ArgTok, e.values)))))
      [] e.kind = "param" ->
            Paren(<<Id(e.name), Id(e.type)>> \o Paren(<<Id("desc"), Str(ParamDesc(e.name))>>))
      [] e.kind = "enumNested" ->
            Paren(<<Id(e.name)>>
                  \o Paren(<<Id("enum")>> \o Paren(MapSeq(Str, e.values)))
                  \o Paren(<<Id("desc"), Str(ParamDesc(e.name))>>))
      [] e.kind = "enumInline" ->
            Paren(<<Id(e.name), Id("enum")>>
                  \o Paren(MapSeq(Str, e.values))
                  \o Paren(<<Id("desc"), Str(ParamDesc(e.name))>>))
      [] e.kind = "outputs" ->
            Paren(<<Id("outputs")>> \o Cat(MapSeq(OutEntry, e.values)))
      [] e.kind = "bad" -> Paren(<<Str("oops"), Id("x")>>)
      [] e.kind = "badList" -> Paren(Paren(<<Id("x")>>) \o <<Id("y")>>)
      [] e.kind = "empty" -> Paren(<<>>)
      [] e.kind = "paramMeta" ->
            Paren(<<Id(e.name), Id(e.type)>>
                  \o Paren(<<Id("desc"), Str(ParamDesc(e.name))>>)
                  \o Paren(<<Id(e.values[1]), Str(e.values[2])>>))
      [] e.kind = "dockerFlat" ->
            Paren(<<Id("run_docker")>>
                  \o Paren(<<Id("image"), Str(e.image)>>)
                  \o Paren(<<Id("arguments")>> \o MapSeq(NameTok, e.values)))
      [] e.kind = "dockerFields" ->
            Paren(<<Id("run_docker")>>
                  \o Paren(<<Id("image"), Str(e.image)>>)
                  \o Paren(<<Id("volumes")>> \o Paren(Cat(MapSeq(VolumeEntry, e.volumes))))
                  \o Paren(<<Id("arguments")>> \o Paren(MapSeq(NameTok, e.values))))

\* (head[1] head[2] ( elems... ))
RenderProgram(head, elems) == Paren(head \o Paren(Cat(MapSeq(RenderElem, elems))))

\* one token removed / one token inserted
DropAt(ts, k)      == SubSeq(ts, 1, k - 1) \o SubSeq(ts, k + 1, Len(ts))
InsertAt(ts, k, t) == SubSeq(ts, 1, k - 1) \o <<t>> \o SubSeq(ts, k, Len(ts))

Source(family, head, elems, mut, at, tokens) ==
    [family |-> family, head |-> head, elems |-> elems, mut |-> mut, at |-> at,
     tokens |-> tokens]

BalaHead == <<Id("bala"), Id("myprog")>>

Sources ==
    LET DockerNoImage == Elem("run_docker", "run_docker", "", <<>>, "")
        BadElem       == Elem("bad", "", "", <<>>, "")
        EmptyElem     == Elem("empty", "", "", <<>>, "")
        StructElems   == {DescElem, DockerElem, DockerNoImage, ParamElem("p1", "string"),
                          ParamElem("p2", "file"), OutputsElem(1), BadElem, EmptyElem}
        \* the program of TestParseProgram_ValidMinimal
        MinimalElems  == <<DescElem, DockerElem, ParamElem("p1", "string"), OutputsElem(1)>>
        EnumValues    == {"A", "B", "desc"}
        Heads == {BalaHead,
                  <<Id("foo"), Id("myprog")>>,
                  <<Str("bala"), Id("myprog")>>,
                  <<Id("bala"), Str("myprog")>>,
                  <<Id("foo"), Str("myprog")>>,
                  Paren(<<Id("bala")>>) \o <<Id("myprog")>>}
        MutBases == {<<ParamElem("p1", "string")>>,
                     <<DescElem, DockerElem>>,
                     <<ParamElem("p1", "string"), ParamElem("p2", "file")>>}
        RawAlphabet == {LP, RP, Id("bala"), Id("x"), Str("s")}
    IN
    \* well-formed programs: any body of declared elements
    {Source("struct", BalaHead, es, "none", 0, RenderProgram(BalaHead, es)) :
        es \in SeqsUpTo(StructElems, MaxBody) \cup {MinimalElems}}
    \cup
    \* one enum parameter, both shapes, every value list
    {Source("enum", BalaHead, <<EnumNested("p1", vs)>>, "none", 0,
            RenderProgram(BalaHead, <<EnumNested("p1", vs)>>)) :
        vs \in SeqsUpTo(EnumValues, MaxEnum)}
    \cup
    {Source("enum", BalaHead, <<EnumInline("p1", vs)>>, "none", 0,
            RenderProgram(BalaHead, <<EnumInline("p1", vs)>>)) :
        vs \in SeqsUpTo(EnumValues, MaxEnum)}
    \cup
    \* root-level variations
    {Source("head", h, es, "none", 0, RenderProgram(h, es)) :
        h \in Heads, es \in {<<ParamElem("p1", "string")>>, <<BadElem>>}}
    \cup
    \* one ")" removed, one ")" added, one "(" added, a comment added, anywhere
    UNION {
        LET ts == RenderProgram(BalaHead, es) IN
            {Source("mut", BalaHead, es, "dropR", k, DropAt(ts, k)) :
                k \in {i \in 1..Len(ts) : ts[i] = RP}}
            \cup {Source("mut", BalaHead, es, "addR", k, InsertAt(ts, k, RP)) :
                k \in 1..(Len(ts) + 1)}
            \cup {Source("mut", BalaHead, es, "addL", k, InsertAt(ts, k, LP)) :
                k \in 1..(Len(ts) + 1)}
            \cup {Source("mut", BalaHead, es, "addC", k, InsertAt(ts, k, Cmt(" note"))) :
                k \in 1..(Len(ts) + 1)}
        : es \in MutBases}
    \cup
    \* arbitrary short inputs
    {Source("raw", <<>>, <<>>, "none", 0, ts) : ts \in SeqsUpTo(RawAlphabet, MaxRaw)}

CountTok(ts, t) == Cardinality({i \in 1..Len(ts) : ts[i] = t})

----------------------------------------------------------------------------
(* internal/ast *)

NoDefault    == [isNil |-> TRUE, val |-> ""]
DefaultOf(v) == [isNil |-> FALSE, val |-> v]

EmptyMap == [k \in {} |-> ""]
Put(m, k, v) == [x \in (DOMAIN m) \cup {k} |-> IF x = k THEN v ELSE m[x]]

\* the values an ImplementationBlock field holds (map[string]any)
FString(s) == [kind |-> "string", s |-> s, l |-> <<>>]
FList(l)   == [kind |-> "list", s |-> "", l |-> l]       \* []any of strings
FPairs(l)  == [kind |-> "pairs", s |-> "", l |-> l]      \* []any of 2-element []any
FNil       == [kind |-> "nil", s |-> "", l |-> <<>>]

Parameter(name, type, desc, constraints, default, meta) ==
    [Name |-> name, Type |-> type, Description |-> desc,
     Constraints |-> constraints, Default |-> default, Metadata |-> meta]

ImplementationBlock(name, fields) == [Name |-> name, Fields |-> fields]

Program(name, desc, params, impls, meta, outputs) ==
    [Name |-> name, Description |-> desc, Parameters |-> params,
     Implementations |-> impls, Metadata |-> meta, Outputs |-> outputs]

NoProgram == Program("", "", <<>>, <<>>, EmptyMap, <<>>)

----------------------------------------------------------------------------
(* internal/parser: the S-expression reader *)

SExpr(tok, children) == [Token |-> tok, Children |-> children]

NoRoot == SExpr(ZeroToken, <<>>)

\* Parser.advance on (currentToken, peekToken, iterator position)
RECURSIVE NextNonComment(_, _)
NextNonComment(stream, i) ==
    IF i > Len(stream) \/ stream[i].Type # TOKEN_COMMENT THEN i
    ELSE NextNonComment(stream, i + 1)

\* variant: a comment is handed on like any other token
advance_keepComments(st) ==
    LET stream == TokenStream(toks)
    IN [cur  |-> st.peek,
        peek |-> IF st.idx > Len(stream) THEN EOFToken ELSE stream[st.idx],
        idx  |-> IF st.idx > Len(stream) THEN st.idx ELSE st.idx + 1]

advance(st) ==
    LET stream == TokenStream(toks)
        j      == NextNonComment(stream, st.idx)
    IN [cur  |-> st.peek,
        peek |-> IF j > Len(stream) THEN EOFToken ELSE stream[j],
        idx  |-> IF j > Len(stream) THEN j ELSE j + 1]

ParserState == [cur |-> currentToken, peek |-> peekToken, idx |-> ntIdx]

SetParserState(st) ==
    /\ currentToken' = st.cur
    /\ peekToken' = st.peek
    /\ ntIdx' = st.idx

\* Parser.addError: the message with the position of the current token
\* variant: only the first error is kept
addErrorf_firstOnly(errs, tok, msg, arg) ==
    IF errs = <<>> THEN <<[Pos |-> tok.Pos, Msg |-> msg, Arg |-> arg]>> ELSE errs
addErrorf(errs, tok, msg, arg) == Append(errs, [Pos |-> tok.Pos, Msg |-> msg, Arg |-> arg])
addError(errs, tok, msg) == addErrorf(errs, tok, msg, "")

\* what ParseProgram returns: (program, nil) or (nil, p.getError())
NoResult     == [set |-> FALSE, ok |-> FALSE, program |-> NoProgram, err |-> <<>>]
Success(p)   == [set |-> TRUE, ok |-> TRUE, program |-> p, err |-> <<>>]
Failure(es)  == [set |-> TRUE, ok |-> FALSE, program |-> NoProgram, err |-> es]

MsgNoInput      == "unexpected end of input before program definition"
MsgMissingParen == "missing closing parenthesis in S-expression"
MsgNotEnough    == "invalid program structure: not enough elements"
MsgNoBala       == "program must start with 'bala'"
MsgBadName      == "invalid program name"
MsgUnexpected   == "unexpected token %s in program body"

----------------------------------------------------------------------------
(* internal/parser: the AST builder *)

\* the literals of the STRING leaves of a list of nodes, in order
RECURSIVE StringLiterals(_)
StringLiterals(nodes) ==
    IF nodes = <<>> THEN <<>>
    ELSE (IF Head(nodes).Token.Type = TOKEN_STRING
          THEN <<Head(nodes).Token.Literal>> ELSE <<>>)
         \o StringLiterals(Tail(nodes))

\* enum values of the shape (name enum v... (v...)): children from index i on
RECURSIVE inlineEnumValues(_, _)
inlineEnumValues(children, i) ==
    \* SkipsAsDesc(child): the test "Skip desc nodes" of the enum value loop
    LET SkipsAsDesc(child) ==
            Len(child.Children) > 0 /\ child.Children[1].Token.Literal = "desc"
    IN
    IF i > Len(children) THEN <<>>
    ELSE LET child == children[i]
             here  == IF SkipsAsDesc(child) THEN <<>>
                      ELSE IF child.Token.Type = TOKEN_STRING
                           THEN <<child.Token.Literal>>
                      ELSE IF Len(child.Children) > 0
                           THEN StringLiterals(child.Children)
                      ELSE <<>>
         IN here \o inlineEnumValues(children, i + 1)

\* enum values of the shape (name (enum (v...))): children of the (enum ...) list
RECURSIVE nestedEnumValues(_, _)
nestedEnumValues(children, i) ==
    IF i > Len(children) THEN <<>>
    ELSE (IF Len(children[i].Children) > 0
          THEN StringLiterals(children[i].Children) ELSE <<>>)
         \o nestedEnumValues(children, i + 1)

\* the "Process metadata blocks" loop: description and metadata after child i
RECURSIVE paramMetadata(_, _, _)
paramMetadata(children, i, acc) ==
    IF i > Len(children) THEN acc
    ELSE LET metaNode == children[i]
             next ==
                IF Len(metaNode.Children) > 0
                   /\ metaNode.Children[1].Token.Type = TOKEN_IDENTIFIER
                THEN LET keyword == metaNode.Children[1].Token.Literal IN
                     IF keyword = "desc" /\ Len(metaNode.Children) > 1
                     THEN IF metaNode.Children[2].Token.Type = TOKEN_STRING
                          THEN [desc |-> metaNode.Children[2].Token.Literal,
                                meta |-> Put(acc.meta, "desc",
                                             metaNode.Children[2].Token.Literal)]
                          ELSE acc
                     ELSE IF Len(metaNode.Children) > 1
                          THEN [desc |-> acc.desc,
                                meta |-> Put(acc.meta, keyword,
                                             metaNode.Children[2].Token.Literal)]
                          ELSE acc
                ELSE acc
         IN paramMetadata(children, i + 1, next)

\* variant: (default v) is stored as the Default of the parameter
parseParameterSExpr_setsDefault(node) ==
    LET cs == node.Children
        md == paramMetadata(cs, 3, [desc |-> "", meta |-> EmptyMap])
    IN Parameter(cs[1].Token.Literal,
                 IF Len(cs) > 1 /\ cs[2].Token.Type = TOKEN_IDENTIFIER
                 THEN cs[2].Token.Literal ELSE "",
                 md.desc, <<>>,
                 IF "default" \in DOMAIN md.meta THEN DefaultOf(md.meta["default"])
                 ELSE NoDefault,
                 md.meta)
parseParameterSExpr(node) ==
    IF Len(node.Children) = 0
    THEN Parameter("", "", "", <<>>, NoDefault, EmptyMap)
    ELSE
    LET cs   == node.Children
        c1   == cs[2]
        type ==
            IF Len(cs) > 1
            THEN IF c1.Token.Type = TOKEN_IDENTIFIER
                 THEN c1.Token.Literal
                 ELSE IF Len(c1.Children) > 0 /\ c1.Children[1].Token.Literal = "enum"
                      THEN "enum" ELSE ""
            ELSE ""
        constraints ==
            IF Len(cs) > 1
            THEN IF c1.Token.Type = TOKEN_IDENTIFIER
                 THEN IF c1.Token.Literal = "enum"
                      THEN inlineEnumValues(cs, 3) ELSE <<>>
                 ELSE IF Len(c1.Children) > 0 /\ c1.Children[1].Token.Literal = "enum"
                      THEN nestedEnumValues(c1.Children, 2) ELSE <<>>
            ELSE <<>>
        md   == paramMetadata(cs, 3, [desc |-> "", meta |-> EmptyMap])
    IN Parameter(cs[1].Token.Literal, type, md.desc, constraints, NoDefault, md.meta)

\* the (host container) pairs of a volumes field
RECURSIVE volumePairs(_, _)
volumePairs(children, j) ==
    IF j > Len(children) THEN <<>>
    ELSE (IF Len(children[j].Children) >= 2
          THEN << <<children[j].Children[1].Token.Literal,
                    children[j].Children[2].Token.Literal>> >>
          ELSE <<>>)
         \o volumePairs(children, j + 1)

\* the literals of an arguments field
RECURSIVE argumentLiterals(_, _)
argumentLiterals(children, j) ==
    IF j > Len(children) THEN <<>>
    ELSE <<children[j].Token.Literal>> \o argumentLiterals(children, j + 1)

RECURSIVE blockFields(_, _, _)
blockFields(children, i, fields) ==
    IF i > Len(children) THEN fields
    ELSE LET fieldNode == children[i]
             next ==
                IF Len(fieldNode.Children) = 0 THEN fields
                ELSE IF fieldNode.Children[1].Token.Type # TOKEN_IDENTIFIER THEN fields
                ELSE LET fieldName == fieldNode.Children[1].Token.Literal IN
                     IF fieldName = "image" \/ fieldName = "command"
                     THEN IF Len(fieldNode.Children) > 1
                             /\ fieldNode.Children[2].Token.Type = TOKEN_STRING
                          THEN Put(fields, fieldName,
                                   FString(fieldNode.Children[2].Token.Literal))
                          ELSE fields
                     ELSE IF fieldName = "volumes"
                     THEN Put(fields, fieldName, FPairs(volumePairs(fieldNode.Children, 2)))
                     ELSE IF fieldName = "arguments"
                     THEN Put(fields, fieldName,
                              FList(argumentLiterals(fieldNode.Children, 2)))
                     ELSE IF Len(fieldNode.Children) > 1
                          THEN Put(fields, fieldName,
                                   FString(fieldNode.Children[2].Token.Literal))
                          ELSE Put(fields, fieldName, FNil)
         IN blockFields(children, i + 1, next)


parseImplementationBlockSExpr(node) ==
    ImplementationBlock(node.Children[1].Token.Literal,
                        blockFields(node.Children, 2, EmptyMap))

\* one iteration of "for _, child := range programBody.Children":
\* the program and the error list after child
\* variant: a new parameter is put in front of the ones already collected
walkChild_newestFirst(prog, errs, child, tok) ==
    IF Len(child.Children) = 0 THEN [program |-> prog, errors |-> errs]
    ELSE LET firstElement == child.Children[1] IN
         IF firstElement.Token.Type # TOKEN_IDENTIFIER
         THEN [program |-> prog,
               errors  |-> addErrorf(errs, tok, MsgUnexpected, firstElement.Token.Type)]
         ELSE IF firstElement.Token.Literal = "desc"
         THEN [program |->
                  IF Len(child.Children) > 1 /\ child.Children[2].Token.Type = TOKEN_STRING
                  THEN [prog EXCEPT !.Description = child.Children[2].Token.Literal]
                  ELSE prog,
               errors |-> errs]
         ELSE IF firstElement.Token.Literal = "run_docker"
         THEN [program |-> [prog EXCEPT !.Implementations =
                               Append(@, parseImplementationBlockSExpr(child))],
               errors |-> errs]
         ELSE [program |-> [prog EXCEPT !.Parameters =
                               <<parseParameterSExpr(child)>> \o @],
               errors |-> errs]
walkChild(prog, errs, child, tok) ==
    IF Len(child.Children) = 0 THEN [program |-> prog, errors |-> errs]
    ELSE LET firstElement == child.Children[1] IN
         IF firstElement.Token.Type # TOKEN_IDENTIFIER
         THEN [program |-> prog,
               errors  |-> addErrorf(errs, tok, MsgUnexpected, firstElement.Token.Type)]
         ELSE IF firstElement.Token.Literal = "desc"
         THEN [program |->
                  IF Len(child.Children) > 1 /\ child.Children[2].Token.Type = TOKEN_STRING
                  THEN [prog EXCEPT !.Description = child.Children[2].Token.Literal]
                  ELSE prog,
               errors |-> errs]
         ELSE IF firstElement.Token.Literal = "run_docker"
         THEN [program |-> [prog EXCEPT !.Implementations =
                               Append(@, parseImplementationBlockSExpr(child))],
               errors |-> errs]
         ELSE [program |-> [prog EXCEPT !.Parameters =
                               Append(@, parseParameterSExpr(child))],
               errors |-> errs]

----------------------------------------------------------------------------
(* Parser: New and ParseProgram, step by step *)

\* galaxy.Tool, galaxy.Command and galaxy.Param as GalaxyTranspiler fills them
NoCommand == [isNil |-> TRUE, Value |-> <<>>]
Command(v) == [isNil |-> FALSE, Value |-> v]

Tool(id, name, desc) ==
    [isNil |-> FALSE, Id |-> id, Name |-> name, Description |-> desc,
     Container |-> <<>>, Param |-> <<>>, Data |-> <<>>, Collection |-> <<>>,
     Command |-> NoCommand]

NoTool == [Tool("", "", "") EXCEPT !.isNil = TRUE]

NoTResult == [set |-> FALSE, ok |-> FALSE, panicked |-> FALSE, out |-> <<>>, err |-> <<>>]

\* no transpiler instance exists
TranspileIdle ==
    /\ backend = "none"
    /\ tprog = NoProgram
    /\ tpc = "off"
    /\ Buffer = <<>>
    /\ IndentLevel = 0
    /\ galaxyTool = NoTool
    /\ calls = <<>>
    /\ stages = <<>>
    /\ tresult = NoTResult
    /\ runs = <<>>

\* what a path of the file system holds: nothing, the content it had before
\* main ran, the beginning of a write that failed, or all of the bytes written
NoFile      == [kind |-> "none", data |-> <<>>]
OldFile     == [kind |-> "old", data |-> <<>>]
PartialFile == [kind |-> "partial", data |-> <<>>]
File(data)  == [kind |-> "written", data |-> data]

\* main is not running: the destination holds what it held before
CliIdle ==
    /\ parses = <<>>
    /\ cpc = "off"
    /\ fs = [dest |-> OldFile, temp |-> NoFile]
    /\ exitCode = -1

ParseIdle ==
    /\ ntIdx = 1
    /\ currentToken = ZeroToken
    /\ peekToken = ZeroToken
    /\ errors = <<>>
    /\ stack = <<>>
    /\ root = NoRoot
    /\ program = NoProgram
    /\ bodyIdx = 0
    /\ result = NoResult

\* parser.New: p.advance() twice
New ==
    /\ pc = "new"
    /\ SetParserState(advance(advance(ParserState)))
    /\ pc' = "parseSExpr"
    /\ UNCHANGED <<tvars, lvars, cvars>>
    /\ UNCHANGED <<src, toks, errors, stack, root, program, bodyIdx, result>>

\* parseSExpr: "Skip to the first opening parenthesis"
SkipToken ==
    /\ pc = "parseSExpr"
    /\ currentToken.Type # TOKEN_LPAREN
    /\ currentToken.Type # TOKEN_EOF
    /\ SetParserState(advance(ParserState))
    /\ UNCHANGED <<tvars, lvars, cvars>>
    /\ UNCHANGED <<src, toks, pc, errors, stack, root, program, bodyIdx, result>>

\* parseSExpr: end of input before any "("
NoProgramDefinition ==
    /\ pc = "parseSExpr"
    /\ currentToken.Type = TOKEN_EOF
    /\ errors' = addError(errors, currentToken, MsgNoInput)
    /\ result' = Failure(errors')
    /\ pc' = "done"
    /\ UNCHANGED <<tvars, lvars, cvars>>
    /\ UNCHANGED <<src, toks, ntIdx, currentToken, peekToken, stack, root, program, bodyIdx>>

\* parseSExprNode entered on "(": a new node, the parenthesis consumed
OpenNode ==
    /\ pc \in {"parseSExpr", "parseSExprNode"}
    /\ currentToken.Type = TOKEN_LPAREN
    /\ stack' = Append(stack, SExpr(currentToken, <<>>))
    /\ SetParserState(advance(ParserState))
    /\ pc' = "parseSExprNode"
    /\ UNCHANGED <<tvars, lvars, cvars>>
    /\ UNCHANGED <<src, toks, errors, root, program, bodyIdx, result>>

\* parseSExprNode: "Add token as a leaf node"
LeafNode ==
    /\ pc = "parseSExprNode"
    /\ currentToken.Type \notin {TOKEN_LPAREN, TOKEN_RPAREN, TOKEN_EOF}
    /\ stack' = [stack EXCEPT ![Len(stack)].Children = Append(@, SExpr(currentToken, <<>>))]
    /\ SetParserState(advance(ParserState))
    /\ UNCHANGED <<tvars, lvars, cvars>>
    /\ UNCHANGED <<src, toks, pc, errors, root, program, bodyIdx, result>>

\* parseSExprNode: the closing parenthesis consumed, the node returned to
\* the enclosing call, or to parseSExpr when it is the outermost one
CloseNode ==
    /\ pc = "parseSExprNode"
    /\ currentToken.Type = TOKEN_RPAREN
    /\ SetParserState(advance(ParserState))
    /\ LET node == stack[Len(stack)]
           rest == SubSeq(stack, 1, Len(stack) - 1)
       IN IF rest = <<>>
          THEN /\ root' = node
               /\ stack' = rest
               /\ pc' = "sExprToAST"
          ELSE /\ stack' = [rest EXCEPT ![Len(rest)].Children = Append(@, node)]
               /\ UNCHANGED <<root, pc>>
    /\ UNCHANGED <<tvars, lvars, cvars>>
    /\ UNCHANGED <<src, toks, errors, program, bodyIdx, result>>

\* parseSExprNode: end of input while a "(" is open
MissingParen ==
    /\ pc = "parseSExprNode"
    /\ currentToken.Type = TOKEN_EOF
    /\ errors' = addError(errors, currentToken, MsgMissingParen)
    /\ result' = Failure(errors')
    /\ pc' = "done"
    /\ UNCHANGED <<tvars, lvars, cvars>>
    /\ UNCHANGED <<src, toks, ntIdx, currentToken, peekToken, stack, root, program, bodyIdx>>

\* variant: the first child is compared by its literal only
rootCheck_literalOnly(r) ==
    IF Len(r.Children) < 3 THEN MsgNotEnough
    ELSE IF r.Children[1].Token.Literal # "bala" THEN MsgNoBala
    ELSE IF r.Children[2].Token.Type # TOKEN_IDENTIFIER THEN MsgBadName
    ELSE ""
\* the first root-level check of sExprToAST that fails, "" when none does
rootCheck(r) ==
    IF Len(r.Children) < 3 THEN MsgNotEnough
    ELSE IF r.Children[1].Token.Type # TOKEN_IDENTIFIER
            \/ r.Children[1].Token.Literal # "bala" THEN MsgNoBala
    ELSE IF r.Children[2].Token.Type # TOKEN_IDENTIFIER THEN MsgBadName
    ELSE ""

\* sExprToAST: a root-level check fails
RootInvalid ==
    /\ pc = "sExprToAST"
    /\ rootCheck(root) # ""
    /\ errors' = addError(errors, currentToken, rootCheck(root))
    /\ result' = Failure(errors')
    /\ pc' = "done"
    /\ UNCHANGED <<tvars, lvars, cvars>>
    /\ UNCHANGED <<src, toks, ntIdx, currentToken, peekToken, stack, root, program, bodyIdx>>

\* sExprToAST: the root is accepted and the Program created
RootValid ==
    /\ pc = "sExprToAST"
    /\ rootCheck(root) = ""
    /\ program' = Program(root.Children[2].Token.Literal, "", <<>>, <<>>, EmptyMap, <<>>)
    /\ bodyIdx' = 1
    /\ pc' = "walk"
    /\ UNCHANGED <<tvars, lvars, cvars>>
    /\ UNCHANGED <<src, toks, ntIdx, currentToken, peekToken, errors, stack, root, result>>

programBody == root.Children[3]

\* sExprToAST: one body element processed
WalkChild ==
    /\ pc = "walk"
    /\ bodyIdx <= Len(programBody.Children)
    /\ LET r == walkChild(program, errors, programBody.Children[bodyIdx], currentToken)
       IN /\ program' = r.program
          /\ errors' = r.errors
    /\ bodyIdx' = bodyIdx + 1
    /\ UNCHANGED <<tvars, lvars, cvars>>
    /\ UNCHANGED <<src, toks, pc, ntIdx, currentToken, peekToken, stack, root, result>>

\* ParseProgram: the walk is over and errors were recorded
ReturnErrors ==
    /\ pc = "walk"
    /\ bodyIdx > Len(programBody.Children)
    /\ Len(errors) > 0
    /\ result' = Failure(errors)
    /\ pc' = "done"
    /\ UNCHANGED <<tvars, lvars, cvars>>
    /\ UNCHANGED <<src, toks, ntIdx, currentToken, peekToken, errors, stack, root,
                   program, bodyIdx>>

\* variant: tokens left after the first form are an error
ReturnProgram_onlyAtEOF ==
    /\ pc = "walk"
    /\ bodyIdx > Len(programBody.Children)
    /\ Len(errors) = 0
    /\ result' = IF currentToken.Type = TOKEN_EOF THEN Success(program)
                 ELSE Failure(addError(errors, currentToken, MsgMissingParen))
    /\ pc' = "done"
    /\ UNCHANGED <<tvars, lvars, cvars>>
    /\ UNCHANGED <<src, toks, ntIdx, currentToken, peekToken, errors, stack, root,
                   program, bodyIdx>>

\* ParseProgram: return program, nil
ReturnProgram ==
    /\ pc = "walk"
    /\ bodyIdx > Len(programBody.Children)
    /\ Len(errors) = 0
    /\ result' = Success(program)
    /\ pc' = "done"
    /\ UNCHANGED <<tvars, lvars, cvars>>
    /\ UNCHANGED <<src, toks, ntIdx, currentToken, peekToken, errors, stack, root,
                   program, bodyIdx>>

InitParse ==
    /\ src \in Sources
    /\ toks = src.tokens
    /\ pc = "new"
    /\ ParseIdle
    /\ TranspileIdle
    /\ LexIdle
    /\ CliIdle

NextParse ==
    \/ New
    \/ SkipToken
    \/ NoProgramDefinition
    \/ OpenNode
    \/ LeafNode
    \/ CloseNode
    \/ MissingParen
    \/ RootInvalid
    \/ RootValid
    \/ WalkChild
    \/ ReturnErrors
    \/ ReturnProgram

SpecParse == InitParse /\ [][NextParse]_vars

----------------------------------------------------------------------------
(* internal/transpiler: TranspilerBase and the helpers shared by backends *)

\* A backend writes through WriteLine and SetIndentLevel.  A function body
\* is modelled as the sequence of these calls it makes; a run of WriteLine
\* calls with constant text at one indentation level is one W.
W(t)        == [op |-> "W", text |-> t, level |-> 0]
Inc         == [op |-> "I", text |-> <<>>, level |-> 1]    \* SetIndentLevel(GetIndentLevel() + 1)
Dec         == [op |-> "I", text |-> <<>>, level |-> -1]   \* SetIndentLevel(GetIndentLevel() - 1)
SetLevel(n) == [op |-> "S", text |-> <<>>, level |-> n]    \* SetIndentLevel(n)

\* The calls of ops applied in order to b = (Buffer, IndentLevel, ...): a
\* WriteLine appends one line at the indentation level current when it is
\* called, a SetIndentLevel changes the level for the calls after it.
Emit(b, ops) ==
    LET levelAfter(k) ==
            LET sets == {j \in 1..k : ops[j].op = "S"}
                j0   == IF sets = {} THEN 0 ELSE CHOOSE j \in sets : \A i \in sets : i <= j
                base == IF j0 = 0 THEN b.IndentLevel ELSE ops[j0].level
                up   == {i \in (j0 + 1)..k : ops[i].op = "I" /\ ops[i].level = 1}
                down == {i \in (j0 + 1)..k : ops[i].op = "I" /\ ops[i].level = -1}
            IN base + Cardinality(up) - Cardinality(down)
        called == [k \in 1..Len(ops) |->
                     [op |-> ops[k].op, indent |-> levelAfter(k), text |-> ops[k].text]]
        IsWriteLine(c) == c.op = "W"
        written == SelectSeq(called, IsWriteLine)
    IN [b EXCEPT !.Buffer = @ \o [i \in 1..Len(written) |->
                                    [indent |-> written[i].indent,
                                     text |-> written[i].text]],
                 !.IndentLevel = levelAfter(Len(ops))]

\* an error value: the chain of messages from the outermost wrap to the cause
Err(msg, arg)      == <<[Msg |-> msg, Arg |-> arg]>>
Wrap(msg, arg, e)  == Err(msg, arg) \o e
NoErr              == <<>>

MsgNoHandler     == "no handler registered for implementation type '%s'"
MsgNoHandlerNF   == "no handler registered for implementation '%s'"
MsgNoValidator   == "no validator registered for type '%s'"
MsgEnumEmpty     == "enum type requires constraints with allowed values"
MsgEnumEmptyGx   == "enum type '%s' must have at least one constraint"
MsgNoImage       == "Docker image not specified or invalid"
MsgNoImageGx     == "docker implementation requires 'image' option"
MsgValidating    == "error validating parameter '%s'"
MsgTypeStage     == "error generating type validation"
MsgTypeStageGx   == "error writing type validation"
MsgImplStage     == "error processing implementations"
MsgProcessing    == "error processing '%s' implementation"
MsgInImpl        == "error in implementation '%s'"

RECURSIVE IdentifyFileParameters(_)
IdentifyFileParameters(params) ==
    IF params = <<>> THEN <<>>
    ELSE (IF Head(params).Type = "file" \/ Head(params).Type = "directory"
          THEN <<Head(params).Name>> ELSE <<>>)
         \o IdentifyFileParameters(Tail(params))

IsParamReference(s, params) == \E i \in 1..Len(params) : params[i].Name = s

\* the type of the first parameter named name, "" when there is none
GetParamType(name, params) ==
    IF IsParamReference(name, params)
    THEN LET i == CHOOSE j \in 1..Len(params) :
                    /\ params[j].Name = name
                    /\ \A k \in 1..(j - 1) : params[k].Name # name
         IN params[i].Type
    ELSE ""

Contains(slice, s) == \E i \in 1..Len(slice) : slice[i] = s

\* impl.Fields[k].(string) and impl.Fields[k].([]any)
FieldString(impl, k) ==
    IF k \in DOMAIN impl.Fields /\ impl.Fields[k].kind = "string"
    THEN [ok |-> TRUE, s |-> impl.Fields[k].s] ELSE [ok |-> FALSE, s |-> ""]
FieldSlice(impl, k) ==
    IF k \in DOMAIN impl.Fields /\ impl.Fields[k].kind \in {"list", "pairs"}
    THEN [ok |-> TRUE, kind |-> impl.Fields[k].kind, l |-> impl.Fields[k].l]
    ELSE [ok |-> FALSE, kind |-> "nil", l |-> <<>>]

\* GetTypeValidators() of a backend instance made by its constructor: the
\* eight built-in types registered by NewPythonTranspiler and NewRTranspiler;
\* galaxyTypeValidators, typeValidatorAlias and enum of NewGalaxyTranspiler
TypeValidators(b) ==
    CASE b \in {"python", "r"} ->
            {"string", "number", "integer", "boolean", "enum", "file", "directory",
             "character"}
      [] b = "galaxy" ->
            {"text", "integer", "float", "boolean", "genomebuild", "select", "color",
             "data_column", "hidden", "hidden_data", "baseurl", "file", "ftpfile", "data",
             "data_collection", "drill_down"}
            \cup {"string", "character", "number", "integer", "boolean", "file",
                  "directory"}
            \cup {"enum"}
      [] OTHER -> {}

\* GetImplementationHandlers() of a backend instance made by its constructor
ImplHandlers(b) ==
    IF b \in {"python", "r", "nextflow", "galaxy"} THEN {"run_docker"} ELSE {}

\* the validate<T>Type functions of the Python and R backends
pythonValidator(p) ==
    LET pyString == <<W(<<"if not isinstance str", p.Name>>), Inc,
                         W(<<"raise TypeError", p.Name>>), Dec>>
    IN
    CASE p.Type \in {"string", "character"} -> [ops |-> pyString, err |-> NoErr]
      [] p.Type \in {"number", "integer", "boolean"} ->
            [ops |-> <<W(<<"if not isinstance", p.Type, p.Name>>), Inc,
                       W(<<"raise TypeError", p.Name>>), Dec>>, err |-> NoErr]
      [] p.Type = "enum" ->
            IF Len(p.Constraints) = 0
            THEN [ops |-> <<>>, err |-> Err(MsgEnumEmpty, "")]
            ELSE [ops |-> <<W(<<"valid_values =", p.Name>> \o p.Constraints)>>
                          \o pyString
                          \o <<W(<<"if not in valid_values", p.Name>>), Inc,
                               W(<<"raise ValueError", p.Name>>), Dec>>,
                  err |-> NoErr]
      [] p.Type \in {"file", "directory"} ->
            [ops |-> pyString \o <<W(<<"_path = validate_path", p.Name>>)>>,
             err |-> NoErr]

rValidator(p) ==
    IF p.Type = "enum"
    THEN IF Len(p.Constraints) = 0
         THEN [ops |-> <<>>, err |-> Err(MsgEnumEmpty, "")]
         ELSE [ops |-> <<W(<<"valid_ <- c", p.Name>> \o p.Constraints),
                         W(<<"if !%in% valid_ {", p.Name>>), Inc,
                         W(<<"stop must be one of", p.Name>>), Dec, W(<<"}">>)>>,
               err |-> NoErr]
    ELSE [ops |-> <<W(<<"if (!is.", IF p.Type \in {"file", "directory"}
                                      THEN "string" ELSE p.Type, p.Name>>), Inc,
                    W(<<"stop must be", p.Name>>), Dec, W(<<"}">>)>>,
          err |-> NoErr]

\* writeTypeValidation of PythonTranspiler and RTranspiler: the loop over
\* params from index i, on the emission state st = (Buffer, IndentLevel, calls)
RECURSIVE validateLoop_noDefaultSkip(_, _, _, _)
RECURSIVE validateLoop(_, _, _, _)
\* variant: parameters with a Default are validated like the others
validateLoop_noDefaultSkip(b, params, i, st) ==
    IF i > Len(params) THEN [st |-> st, err |-> NoErr]
    ELSE LET param == params[i] IN
         IF param.Type \notin TypeValidators(b)
         THEN validateLoop_noDefaultSkip(b, params, i + 1,
                           Emit(st, <<W(<<"# No specific validation for type", param.Type>>)>>))
         ELSE LET v   == IF b = "python" THEN pythonValidator(param) ELSE rValidator(param)
                  st1 == [Emit(st, v.ops) EXCEPT !.calls =
                             Append(@, [fn |-> "validator", key |-> param.Type, at |-> i])]
              IN IF v.err # NoErr
                 THEN [st |-> st1, err |-> Wrap(MsgValidating, param.Name, v.err)]
                 ELSE validateLoop_noDefaultSkip(b, params, i + 1, st1)
validateLoop(b, params, i, st) ==
    IF i > Len(params) THEN [st |-> st, err |-> NoErr]
    ELSE LET param == params[i] IN
         IF ~param.Default.isNil THEN validateLoop(b, params, i + 1, st)
         ELSE IF param.Type \notin TypeValidators(b)
         THEN validateLoop(b, params, i + 1,
                           Emit(st, <<W(<<"# No specific validation for type", param.Type>>)>>))
         ELSE LET v   == IF b = "python" THEN pythonValidator(param) ELSE rValidator(param)
                  st1 == [Emit(st, v.ops) EXCEPT !.calls =
                             Append(@, [fn |-> "validator", key |-> param.Type, at |-> i])]
              IN IF v.err # NoErr
                 THEN [st |-> st1, err |-> Wrap(MsgValidating, param.Name, v.err)]
                 ELSE validateLoop(b, params, i + 1, st1)

writeTypeValidation(b, params, st) ==
    IF Len(params) = 0 THEN [st |-> st, err |-> NoErr]
    ELSE validateLoop(b, params, 1,
                      Emit(st, <<W(<<IF b = "python" THEN "# Parameter validation"
                                     ELSE "# Type validation">>)>>))

----------------------------------------------------------------------------
(* PythonTranspiler *)

pyWriteHeader == <<W(<<"#!/usr/bin/env python3", "imports", "logger">>)>>

pyWriteUtilityFunctions ==
    <<W(<<"@dataclass", "class Result:">>), Inc, W(<<"status, output_dir, message">>), Dec,
      W(<<"">>),
      W(<<"def validate_path">>), Inc, W(<<"docstring", "if not path:">>), Inc,
      W(<<"raise ValueError">>), Dec, W(<<"return abspath">>), Dec, W(<<"">>),
      W(<<"def is_running_in_docker">>), Inc, W(<<"return exists /.dockerenv">>), Dec,
      W(<<"">>),
      W(<<"def run_docker">>), Inc, W(<<"cmd = docker run", "for volumes">>), Inc,
      W(<<"cmd.extend -v">>), Dec, W(<<"", "for env">>), Inc, W(<<"cmd.extend -e">>), Dec,
      W(<<"", "cmd.append(image)", "subprocess.run", "if returncode">>), Inc,
      W(<<"raise RuntimeError">>), Dec, W(<<"", "return result.stdout">>), Dec, W(<<"">>)>>

pyWriteFunctionHeader(prog) ==
    LET pyParamDoc(p) ==
            <<W(<<"    param doc", p.Name,
                  IF p.Description = "" THEN p.Type ELSE p.Description>>
                \o (IF p.Type = "enum" THEN p.Constraints ELSE <<>>))>>
    IN
    \* formatParameterList: one entry "name: type [= default]" per parameter
    LET pyFormatParameter(p) ==
            <<p.Name,
              CASE p.Type \in {"string", "file", "directory", "character", "enum"} -> "str"
                [] p.Type = "number" -> "float"
                [] p.Type = "integer" -> "int"
                [] p.Type = "boolean" -> "bool"
                [] OTHER -> "Any",
              IF p.Default.isNil THEN "" ELSE p.Default.val>>
    IN
    <<W(<<"def", prog.Name>> \o Cat(MapSeq(pyFormatParameter, prog.Parameters))), Inc,
      W(<<"docstring open">>)>>
    \o (IF prog.Description # "" THEN <<W(<<prog.Description>>), W(<<"">>)>> ELSE <<>>)
    \o (IF Len(prog.Parameters) > 0
        THEN <<W(<<"Parameters:">>)>> \o Cat(MapSeq(pyParamDoc, prog.Parameters)) \o <<W(<<"">>)>>
        ELSE <<>>)
    \o <<W(<<"Returns:",
             IF "return" \in DOMAIN prog.Metadata THEN prog.Metadata["return"]
             ELSE "Results of the operation">>),
         W(<<"docstring close">>)>>

RECURSIVE pyWriteSecurityChecks(_, _)
pyWriteSecurityChecks(params, first) ==
    \* the guard of one parameter; isFirst tells whether the section comment
    \* is still to be written
    LET pyGuard(p, isFirst) ==
            IF p.Type \in {"file", "directory"}
            THEN (IF isFirst THEN <<W(<<"", "# existence checks", p.Type>>)>> ELSE <<>>)
                 \o <<W(<<"if not is_running_in_docker():">>), Inc,
                      W(<<"if not os.path.is", p.Type, p.Name>>), Inc,
                      W(<<"raise not found", p.Name>>), Dec, Dec>>
            ELSE <<>>
    IN
    IF params = <<>> THEN <<>>
    ELSE pyGuard(Head(params), first)
         \o pyWriteSecurityChecks(Tail(params),
                first /\ Head(params).Type \notin {"file", "directory"})

\* the "volumes" and "env" loops of handleDockerImplementation
pairLine(loop, tag, pair, params) ==
    IF loop = "volumes"
    THEN <<W(<<tag,
               IF IsParamReference(pair[1], params) THEN "param"
               ELSE IF pair[1] = "parent-folder" \/ pair[1] = "parent_folder"
                    THEN "main_mount_dir"
               ELSE "literal",
               pair[1], pair[2]>>)>>
    ELSE <<W(<<tag, IF IsParamReference(pair[2], params) THEN "param" ELSE "literal",
               pair[1], pair[2]>>)>>

RECURSIVE pairLines(_, _, _, _)
pairLines(loop, tag, slice, params) ==
    IF slice.kind # "pairs" \/ slice.l = <<>> THEN <<>>
    ELSE pairLine(loop, tag, Head(slice.l), params)
         \o pairLines(loop, tag, [slice EXCEPT !.l = Tail(@)], params)

fileParamLine(name) == <<W(<<"# Process for Docker", name>>)>>

pyHandleDockerImplementation(impl, prog) ==
    LET pyArgument(argStr) ==
            IF argStr = "_" THEN <<>>
            ELSE IF IsParamReference(argStr, prog.Parameters)
            THEN LET paramType == GetParamType(argStr, prog.Parameters) IN
                 IF paramType = "file" \/ (paramType = "string" /\ Contains(IdentifyFileParameters(prog.Parameters), argStr))
                 THEN <<W(<<"docker_args.append filename", argStr>>)>>
                 ELSE IF paramType = "boolean"
                 THEN <<W(<<"if", argStr>>), Inc, W(<<"docker_args.append --true-flag">>), Dec>>
                 ELSE <<W(<<"docker_args.append str", argStr>>)>>
            ELSE <<W(<<"docker_args.append literal", argStr>>)>>
    IN
    LET image      == FieldString(impl, "image")
        fileParams == IdentifyFileParameters(prog.Parameters)
        volumes    == FieldSlice(impl, "volumes")
        env        == FieldSlice(impl, "env")
        args       == FieldSlice(impl, "arguments")
    IN IF ~image.ok \/ image.s = "" THEN [ops |-> <<>>, err |-> Err(MsgNoImage, "")]
       ELSE [err |-> NoErr,
             ops |->
               <<W(<<"", "# Process file paths for Docker volume mounting">>)>>
               \o (IF Len(fileParams) > 0
                   THEN Cat(MapSeq(fileParamLine, fileParams))
                        \o <<W(<<"main_mount_dir =", fileParams[1]>>)>>
                   ELSE <<W(<<"main_mount_dir = cwd">>)>>)
               \o <<W(<<"", "try:">>), Inc, W(<<"volumes = {}">>)>>
               \o (IF volumes.ok /\ Len(volumes.l) > 0
                   THEN pairLines("volumes", "volumes[]", volumes, prog.Parameters)
                   ELSE <<W(<<"volumes[main_mount_dir] = /data">>)>>)
               \o <<W(<<"", "env_vars = {}">>)>>
               \o (IF env.ok /\ Len(env.l) > 0
                   THEN pairLines("env", "env_vars[]", env, prog.Parameters) ELSE <<>>)
               \o <<W(<<"", "docker_args = []">>)>>
               \o (IF args.ok /\ args.kind = "list"
                   THEN Cat(MapSeq(pyArgument, args.l)) ELSE <<>>)
               \o <<W(<<"", "run_docker", image.s>>),
                    W(<<"", "output_dir", prog.Name>>),
                    W(<<"", "return Result success">>), Dec,
                    W(<<"except Exception as e:">>), Inc,
                    W(<<"logger.error", "return Result error">>), Dec>>]

pyWriteEntryPoint(prog) ==
    LET pyEntryCall(p) == <<W(<<"=args.", p.Name>>)>>
    IN
    LET pyEntryArgument(p) ==
            <<W(<<"parser.add_argument", p.Name, p.Type,
                  IF p.Description = "" THEN p.Type ELSE p.Description>>
                \o (IF p.Type = "enum" THEN p.Constraints ELSE <<>>))>>
    IN
    <<W(<<"", "", "if __name__ == __main__:">>), Inc,
      W(<<"import argparse", "", "parser = ArgumentParser", prog.Description>>)>>
    \o Cat(MapSeq(pyEntryArgument, prog.Parameters))
    \o <<W(<<"", "args = parser.parse_args()", "">>), W(<<"result =", prog.Name>>), Inc>>
    \o Cat(MapSeq(pyEntryCall, prog.Parameters))
    \o <<Dec, W(<<")", "", "print Status", "if success:">>), Inc,
         W(<<"print Output directory">>), Dec, W(<<"else:">>), Inc,
         W(<<"print Error", "sys.exit(1)">>), Dec, Dec>>

----------------------------------------------------------------------------
(* RTranspiler *)

rWriteDocumentation(prog) ==
    LET rParamDoc(p) ==
            <<W(<<"#' @param", p.Name, IF p.Description = "" THEN p.Type ELSE p.Description>>
                \o (IF p.Type = "enum" THEN p.Constraints ELSE <<>>))>>
    IN
    <<W(<<"#'", prog.Name>>)>>
    \o (IF prog.Description # "" THEN <<W(<<"#' @description", prog.Description>>)>> ELSE <<>>)
    \o Cat(MapSeq(rParamDoc, prog.Parameters))
    \o <<W(<<"#' @return",
             IF "return" \in DOMAIN prog.Metadata THEN prog.Metadata["return"]
             ELSE "Results of the operation">>),
         W(<<"#'", "#' @export">>)>>

\* writeSignature leaves the indentation level raised for the function body
rWriteSignature(prog) ==
    LET rParamDef(p) == <<p.Name, IF p.Default.isNil THEN "" ELSE p.Default.val>>
    IN
    <<W(<<"<- function(", prog.Name>> \o Cat(MapSeq(rParamDef, prog.Parameters))), Inc>>

RECURSIVE rTraversalGuards(_, _)
rTraversalGuards(params, first) ==
    LET rTraversalGuard(p) ==
            <<W(<<"if (grepl path traversal", p.Name>>), Inc, W(<<"stop Path traversal", p.Name>>),
              Dec, W(<<"}">>)>>
    IN
    IF params = <<>> THEN <<>>
    ELSE LET p == Head(params)
             checked == p.Type \in {"string", "file", "directory"}
         IN (IF checked
             THEN (IF first THEN <<W(<<"", "# Security checks">>)>> ELSE <<>>)
                  \o rTraversalGuard(p)
             ELSE <<>>)
            \o rTraversalGuards(Tail(params), first /\ ~checked)

rWriteSecurityChecks(params) ==
    LET rExistenceGuard(p) ==
            IF p.Type \in {"file", "directory"}
            THEN <<W(<<"", "# Check if exists", p.Type, "if (!is_running_in_docker()) {">>), Inc,
                   W(<<"if (!exists", p.Type, p.Name>>), Inc, W(<<"stop does not exist", p.Name>>),
                   Dec, W(<<"}">>), Dec, W(<<"}">>)>>
            ELSE <<>>
    IN
    rTraversalGuards(params, TRUE) \o Cat(MapSeq(rExistenceGuard, params))

rHandleDockerImplementation(impl, prog) ==
    LET rArgument(argStr) ==
            IF argStr = "_" THEN <<>>
            ELSE IF IsParamReference(argStr, prog.Parameters)
            THEN LET paramType == GetParamType(argStr, prog.Parameters) IN
                 IF paramType = "file" \/ (paramType = "string" /\ Contains(IdentifyFileParameters(prog.Parameters), argStr))
                 THEN <<W(<<"_filename,", argStr>>)>>
                 ELSE IF paramType = "number" \/ paramType = "integer"
                 THEN <<W(<<"as.character(),", argStr>>)>>
                 ELSE IF paramType = "boolean"
                 THEN <<W(<<"if() --true-flag,", argStr>>)>>
                 ELSE <<W(<<"param,", argStr>>)>>
            ELSE <<W(<<"literal,", argStr>>)>>
    IN
    LET image      == FieldString(impl, "image")
        fileParams == IdentifyFileParameters(prog.Parameters)
        volumes    == FieldSlice(impl, "volumes")
        env        == FieldSlice(impl, "env")
        args       == FieldSlice(impl, "arguments")
    IN IF ~image.ok \/ image.s = "" THEN [ops |-> <<>>, err |-> Err(MsgNoImage, "")]
       ELSE [err |-> NoErr,
             ops |->
               <<W(<<"", "# Process file paths for Docker volume mounting">>)>>
               \o (IF Len(fileParams) > 0
                   THEN Cat(MapSeq(fileParamLine, fileParams))
                        \o <<W(<<"main_mount_dir <-", fileParams[1]>>)>>
                   ELSE <<W(<<"main_mount_dir <- getwd">>)>>)
               \o <<W(<<"", "tryCatch({">>), Inc, W(<<"result <- run_in_docker(">>), Inc,
                    W(<<"image_name =", image.s>>), W(<<"volumes = list(">>), Inc>>
               \o (IF volumes.ok /\ Len(volumes.l) > 0
                   THEN pairLines("volumes", "c(,)", volumes, prog.Parameters)
                   ELSE <<W(<<"c(main_mount_dir, /data)">>)>>)
               \o <<Dec, W(<<"),">>)>>
               \o (IF env.ok /\ Len(env.l) > 0
                   THEN <<W(<<"env = c(">>), Inc>>
                        \o pairLines("env", "=", env, prog.Parameters)
                        \o <<Dec, W(<<"),">>)>>
                   ELSE <<>>)
               \o (IF args.ok /\ args.kind = "list" /\ Len(args.l) > 0
                   THEN <<W(<<"additional_arguments = c(">>), Inc>>
                        \o Cat(MapSeq(rArgument, args.l))
                        \o <<Dec, W(<<")">>)>>
                   ELSE <<>>)
               \o <<Dec, W(<<")">>), W(<<"", "# Process result", "return(list(">>), Inc,
                    W(<<"status = success, output_dir", prog.Name>>), Dec, W(<<"))">>),
                    Dec, W(<<"}, error = function(e) {">>), Inc,
                    W(<<"stop Docker execution failed">>), Dec, W(<<"})">>)>>]

----------------------------------------------------------------------------
(* processImplementations of the Python, R and Nextflow backends *)

nfHandleDockerImplementation(impl, prog) ==
    LET nfArgument(argStr) ==
            <<W(<<IF IsParamReference(argStr, prog.Parameters) THEN "params.," ELSE "literal,",
                  argStr>>)>>
    IN
    LET nfInput(p) == <<W(<<"val params.", p.Name>>)>>
    IN
    LET image == FieldString(impl, "image")
        args  == FieldSlice(impl, "arguments")
    IN IF ~image.ok \/ image.s = "" THEN [ops |-> <<>>, err |-> Err(MsgNoImage, "")]
       ELSE [err |-> NoErr,
             ops |->
               <<W(<<"">>), W(<<"process {", impl.Name>>), Inc, W(<<"container", image.s>>),
                 W(<<"input:">>)>>
               \o Cat(MapSeq(nfInput, prog.Parameters))
               \o <<W(<<"output:", "path results/", "script:">>), Inc, W(<<"def args = [">>)>>
               \o (IF args.ok /\ args.kind = "list" THEN Cat(MapSeq(nfArgument, args.l)) ELSE <<>>)
               \o <<W(<<"].join">>), W(<<"sh docker run --rm", image.s>>), Dec, Dec,
                    W(<<"}">>)>>]

\* the loop "for _, impl := range program.Implementations" from index i
RECURSIVE implementationLoop(_, _, _, _)
implementationLoop(b, prog, i, st) ==
    LET handleDockerImplementation(blk) ==
            CASE b = "python"   -> pyHandleDockerImplementation(blk, prog)
              [] b = "r"        -> rHandleDockerImplementation(blk, prog)
              [] b = "nextflow" -> nfHandleDockerImplementation(blk, prog)
    IN
    IF i > Len(prog.Implementations) THEN [st |-> st, err |-> NoErr]
    ELSE LET impl == prog.Implementations[i] IN
         IF impl.Name \notin ImplHandlers(b)
         THEN [st |-> st,
               err |-> Err(IF b = "nextflow" THEN MsgNoHandlerNF ELSE MsgNoHandler, impl.Name)]
         ELSE LET h   == handleDockerImplementation(impl)
                  st1 == [Emit(st, h.ops) EXCEPT !.calls =
                             Append(@, [fn |-> "handler", key |-> impl.Name, at |-> i])]
              IN IF h.err # NoErr
                 THEN [st |-> st1,
                       err |-> Wrap(IF b = "nextflow" THEN MsgInImpl ELSE MsgProcessing,
                                    impl.Name, h.err)]
                 ELSE implementationLoop(b, prog, i + 1, st1)

processImplementations(b, prog, st) ==
    LET noImplementation ==
            CASE b = "python"   -> <<W(<<"", "# No implementation blocks found">>),
                                     W(<<"raise NotImplementedError No implementation defined">>)>>
              [] b = "r"        -> <<W(<<"", "# No implementation blocks found">>),
                                     W(<<"stop No implementation defined">>)>>
              [] b = "nextflow" -> <<W(<<"// No implementation blocks found">>),
                                     W(<<"throw new Exception No implementation defined">>)>>
    IN
    IF Len(prog.Implementations) = 0
    THEN [st |-> Emit(st, noImplementation), err |-> NoErr]
    ELSE implementationLoop(b, prog, 1, st)

----------------------------------------------------------------------------
(* NextflowTranspiler *)

nfWriteWorkflowHeader(prog) ==
    <<W(<<"// Nextflow Workflow:", prog.Name>>)>>
    \o (IF prog.Description # "" THEN <<W(<<"//", prog.Description>>)>> ELSE <<>>)
    \o <<W(<<"">>)>>

nfWriteParameters(params) ==
    LET nfParameter(p) ==
            LET defaultStr == IF p.Default.isNil THEN "" ELSE p.Default.val IN
            IF p.Type \in {"string", "file", "directory", "number", "integer", "boolean",
                           "character"}
            THEN <<W(<<"params. =", p.Type, p.Name, defaultStr>>)>>
            ELSE IF p.Type = "enum" /\ Len(p.Constraints) > 0
            THEN <<W(<<"// Allowed values:">> \o p.Constraints),
                   W(<<"params. =", p.Type, p.Name, defaultStr>>)>>
            ELSE <<>>
    IN
    <<W(<<"// Input Parameters">>)>> \o Cat(MapSeq(nfParameter, params)) \o <<W(<<"">>)>>

nfWriteWorkflow(prog) ==
    LET nfCall(impl) == <<W(<<"()", impl.Name>>)>>
    IN
    <<W(<<"workflow {">>), Inc>> \o Cat(MapSeq(nfCall, prog.Implementations))
    \o <<Dec, W(<<"}">>)>>

----------------------------------------------------------------------------
(* GalaxyTranspiler *)

OutputBlock(name, desc, format, path) ==
    [Name |-> name, Description |-> desc, Format |-> format, Path |-> path]

GalaxyParam(type, name, value, label, options, table) ==
    [Type |-> type, Name |-> name, Value |-> value, Label |-> label,
     Options |-> options, FromDataTable |-> table, Columns |-> <<>>]

\* the Columns of the Options of a data-table select
DataTableColumns ==
    <<[Name |-> "name", Index |-> 1], [Name |-> "value", Index |-> 0],
      [Name |-> "path", Index |-> 2]>>

createDataTableParam(tool, param, tableName) ==
    [tool EXCEPT !.Param =
        Append(@, [GalaxyParam("select", param.Name, "", param.Description, <<>>, tableName)
                      EXCEPT !.Columns = DataTableColumns])]

\* validateGenericType(gt): Value is fmt.Sprintf("%v", param.Default) of a nil Default
validateGenericType(tool, param) ==
    \* typeValidatorAlias; every other registered name maps to itself
    LET galaxyType(t) ==
            CASE t \in {"string", "character"} -> "text"
              [] t = "number"                  -> "float"
              [] t = "directory"               -> "data_collection"
              [] OTHER                         -> t
    IN
    [tool |-> [tool EXCEPT !.Param =
                  Append(@, GalaxyParam(galaxyType(param.Type), param.Name,
                                        IF param.Default.isNil THEN "<nil>"
                                        ELSE param.Default.val,
                                        param.Description, <<>>, ""))],
     err |-> NoErr]

validateEnumType(tool, param) ==
    IF Len(param.Constraints) = 0
    THEN [tool |-> tool, err |-> Err(MsgEnumEmptyGx, param.Name)]
    ELSE [tool |-> [tool EXCEPT !.Param =
                       Append(@, GalaxyParam("select", param.Name, param.Constraints[1],
                                             param.Description, param.Constraints, ""))],
          err |-> NoErr]

\* GalaxyTranspiler.writeTypeValidation: the loop over params from index i,
\* on st = (tool, calls)
RECURSIVE gxValidateLoop(_, _, _)
gxValidateLoop(params, i, st) ==
    IF i > Len(params) THEN [st |-> st, err |-> NoErr]
    ELSE LET param == params[i] IN
         IF ~param.Default.isNil THEN gxValidateLoop(params, i + 1, st)
         ELSE IF "galaxy_data_table" \in DOMAIN param.Metadata
         THEN gxValidateLoop(params, i + 1,
                 [tool  |-> createDataTableParam(st.tool, param,
                                                 param.Metadata["galaxy_data_table"]),
                  calls |-> Append(st.calls, [fn |-> "createDataTableParam",
                                              key |-> param.Type, at |-> i])])
         ELSE IF param.Type \notin TypeValidators("galaxy")
         THEN [st |-> st, err |-> Err(MsgNoValidator, param.Type)]
         ELSE LET v   == IF param.Type = "enum" THEN validateEnumType(st.tool, param)
                         ELSE validateGenericType(st.tool, param)
                  st1 == [tool  |-> v.tool,
                          calls |-> Append(st.calls, [fn |-> "validator",
                                                      key |-> param.Type, at |-> i])]
              IN IF v.err # NoErr
                 THEN [st |-> st1, err |-> Wrap(MsgValidating, param.Name, v.err)]
                 ELSE gxValidateLoop(params, i + 1, st1)

RECURSIVE writeOutputDefinitions(_, _)
writeOutputDefinitions(tool, outputs) ==
    LET gxOutput(t, output) ==
            IF output.Format = "directory"
            THEN [t EXCEPT !.Collection =
                    Append(@, [Name |-> output.Name, Type |-> "list",
                               Data |-> <<[Name |-> output.Name, Format |-> "auto",
                                           Label |-> output.Description]>>])]
            ELSE [t EXCEPT !.Data =
                    Append(@, [Name |-> output.Name, Format |-> output.Format,
                               Label |-> output.Description])]
    IN
    IF outputs = <<>> THEN tool
    ELSE writeOutputDefinitions(gxOutput(tool, Head(outputs)), Tail(outputs))

\* literals of the model hold no whitespace, so a literal is passed through
formatGalaxyArgument(arg, params) ==
    IF IsParamReference(arg, params)
    THEN LET i == CHOOSE j \in 1..Len(params) :
                    /\ params[j].Name = arg
                    /\ \A k \in 1..(j - 1) : params[k].Name # arg
         IN IF "galaxy_data_table" \in DOMAIN params[i].Metadata
            THEN [fmt |-> "$%s.fields.path", arg |-> arg]
            ELSE IF params[i].Type = "file" \/ params[i].Type = "directory"
            THEN [fmt |-> "$%s.path", arg |-> arg]
            ELSE [fmt |-> "$%s", arg |-> arg]
    ELSE [fmt |-> "%s", arg |-> arg]

RECURSIVE gxArguments(_, _, _)
gxArguments(command, args, params) ==
    IF args = <<>> THEN command
    ELSE gxArguments(Command(Append(command.Value,
                                    formatGalaxyArgument(Head(args), params))),
                     Tail(args), params)

gxHandleDockerImplementation(tool, impl, prog) ==
    LET image == FieldString(impl, "image")
        args  == FieldSlice(impl, "arguments")
    IN IF ~image.ok \/ image.s = "" THEN [tool |-> tool, err |-> Err(MsgNoImageGx, "")]
       ELSE [tool |-> [tool EXCEPT
                         !.Command = IF args.ok /\ args.kind = "list" /\ Len(args.l) > 0
                                     THEN gxArguments(@, args.l, prog.Parameters)
                                     ELSE @,
                         !.Container = <<[Type |-> "docker", Value |-> image.s]>>],
             err |-> NoErr]

\* the loop of Transpile over program.Implementations: a block with no
\* handler is passed over, and the error a handler returns is dropped
RECURSIVE gxImplementationLoop(_, _, _)
gxImplementationLoop(prog, i, st) ==
    IF i > Len(prog.Implementations) THEN st
    ELSE LET impl == prog.Implementations[i] IN
         IF impl.Name \in ImplHandlers("galaxy")
         THEN gxImplementationLoop(prog, i + 1,
                 [tool  |-> gxHandleDockerImplementation(st.tool, impl, prog).tool,
                  calls |-> Append(st.calls, [fn |-> "handler", key |-> impl.Name,
                                              at |-> i])])
         ELSE gxImplementationLoop(prog, i + 1, st)

----------------------------------------------------------------------------
(* Transpile: the programs handed to a backend and the steps of Transpile *)

Programs ==
    LET ParamChoices ==
            {Parameter("p1", "string", "A string param", <<>>, NoDefault, EmptyMap),
             Parameter("p1", "string", "", <<>>, DefaultOf("x"), EmptyMap),
             Parameter("p2", "enum", "", <<"A", "B">>, NoDefault, EmptyMap),
             Parameter("p2", "enum", "", <<>>, NoDefault, EmptyMap),
             Parameter("p3", "weird", "", <<>>, NoDefault, EmptyMap),
             Parameter("p3", "weird", "", <<>>, DefaultOf("x"), EmptyMap),
             Parameter("p4", "file", "", <<>>, NoDefault, EmptyMap),
             Parameter("p4", "file", "", <<>>, NoDefault,
                       Put(EmptyMap, "galaxy_data_table", "genomes"))}
    IN
    LET ImplChoices ==
            {ImplementationBlock("run_docker",
                Put(Put(EmptyMap, "image", FString("ubuntu:latest")),
                    "arguments", FList(<<"p1", "--flag">>))),
             ImplementationBlock("run_docker", Put(EmptyMap, "arguments", FList(<<"p1">>))),
             ImplementationBlock("run_singularity",
                Put(EmptyMap, "image", FString("ubuntu:latest")))}
    IN
    LET ProgramOutputs ==
            <<OutputBlock("table", "A table", "tsv", "out.tsv"),
              OutputBlock("plots", "", "directory", "plots")>>
    IN
    {Program("myprog", "A program", ps, is, EmptyMap, ProgramOutputs) :
        ps \in SeqsUpTo(ParamChoices, MaxParams), is \in SeqsUpTo(ImplChoices, MaxImpls)}

\* the names passed to RegisterTranspiler
Backends == {"python", "r", "nextflow", "galaxy", "bash", "streamflow"}

TState == [Buffer |-> Buffer, IndentLevel |-> IndentLevel, calls |-> calls]
SetTState(st) ==
    /\ Buffer' = st.Buffer
    /\ IndentLevel' = st.IndentLevel
    /\ calls' = st.calls

\* Buffer.Reset() followed by the calls in ops
ResetAndEmit(ops) == SetTState(Emit([TState EXCEPT !.Buffer = <<>>], ops))
EmitOps(ops)      == SetTState(Emit(TState, ops))

Step(name) == stages' = Append(stages, name)

TSuccess(out) == [set |-> TRUE, ok |-> TRUE, panicked |-> FALSE, out |-> out, err |-> NoErr]
TFailure(e)   == [set |-> TRUE, ok |-> FALSE, panicked |-> FALSE, out |-> <<>>, err |-> e]

\* PythonTranspiler.Transpile: Buffer.Reset, writeHeader, writeUtilityFunctions
PyWriteHeader ==
    /\ backend = "python" /\ tpc = "Transpile"
    /\ ResetAndEmit(pyWriteHeader \o pyWriteUtilityFunctions)
    /\ Step("writeHeader")
    /\ tpc' = "writeFunctionHeader"
    /\ UNCHANGED <<backend, tprog, runs, galaxyTool, tresult>>
    /\ UNCHANGED <<pvars, lvars, cvars>>

PyWriteFunctionHeader ==
    /\ backend = "python" /\ tpc = "writeFunctionHeader"
    /\ EmitOps(pyWriteFunctionHeader(tprog))
    /\ Step("writeFunctionHeader")
    /\ tpc' = "writeTypeValidation"
    /\ UNCHANGED <<backend, tprog, runs, galaxyTool, tresult>>
    /\ UNCHANGED <<pvars, lvars, cvars>>

\* RTranspiler.Transpile: Buffer.Reset, writeDocumentation
RWriteDocumentation ==
    /\ backend = "r" /\ tpc = "Transpile"
    /\ ResetAndEmit(rWriteDocumentation(tprog))
    /\ Step("writeDocumentation")
    /\ tpc' = "writeSignature"
    /\ UNCHANGED <<backend, tprog, runs, galaxyTool, tresult>>
    /\ UNCHANGED <<pvars, lvars, cvars>>

RWriteSignature ==
    /\ backend = "r" /\ tpc = "writeSignature"
    /\ EmitOps(rWriteSignature(tprog))
    /\ Step("writeSignature")
    /\ tpc' = "writeTypeValidation"
    /\ UNCHANGED <<backend, tprog, runs, galaxyTool, tresult>>
    /\ UNCHANGED <<pvars, lvars, cvars>>

\* Python and R: writeTypeValidation and the error return that follows it
WriteTypeValidation ==
    /\ backend \in {"python", "r"} /\ tpc = "writeTypeValidation"
    /\ LET r == writeTypeValidation(backend, tprog.Parameters, TState)
       IN /\ SetTState(r.st)
          /\ IF r.err # NoErr
             THEN /\ tresult' = TFailure(Wrap(MsgTypeStage, "", r.err))
                  /\ tpc' = "done"
             ELSE /\ tpc' = "writeSecurityChecks"
                  /\ UNCHANGED tresult
    /\ Step("writeTypeValidation")
    /\ UNCHANGED <<backend, tprog, runs, galaxyTool>>
    /\ UNCHANGED <<pvars, lvars, cvars>>

WriteSecurityChecks ==
    /\ backend \in {"python", "r"} /\ tpc = "writeSecurityChecks"
    /\ EmitOps(IF backend = "python" THEN pyWriteSecurityChecks(tprog.Parameters, TRUE)
               ELSE rWriteSecurityChecks(tprog.Parameters))
    /\ Step("writeSecurityChecks")
    /\ tpc' = "processImplementations"
    /\ UNCHANGED <<backend, tprog, runs, galaxyTool, tresult>>
    /\ UNCHANGED <<pvars, lvars, cvars>>

\* Python, R and Nextflow: processImplementations and the error return after it
ProcessImplementations ==
    /\ backend \in {"python", "r", "nextflow"} /\ tpc = "processImplementations"
    /\ LET r == processImplementations(backend, tprog, TState)
       IN /\ SetTState(r.st)
          /\ IF r.err # NoErr
             THEN /\ tresult' = TFailure(Wrap(MsgImplStage, "", r.err))
                  /\ tpc' = "done"
             ELSE /\ tpc' = CASE backend = "python"   -> "writeEntryPoint"
                              [] backend = "r"        -> "close"
                              [] backend = "nextflow" -> "writeWorkflow"
                  /\ UNCHANGED tresult
    /\ Step("processImplementations")
    /\ UNCHANGED <<backend, tprog, runs, galaxyTool>>
    /\ UNCHANGED <<pvars, lvars, cvars>>

\* PythonTranspiler.Transpile: SetIndentLevel(0), writeEntryPoint, return
PyWriteEntryPoint ==
    /\ backend = "python" /\ tpc = "writeEntryPoint"
    /\ EmitOps(<<SetLevel(0)>> \o pyWriteEntryPoint(tprog))
    /\ Step("writeEntryPoint")
    /\ tresult' = TSuccess(Buffer')
    /\ tpc' = "done"
    /\ UNCHANGED <<backend, tprog, runs, galaxyTool>>
    /\ UNCHANGED <<pvars, lvars, cvars>>

\* RTranspiler.Transpile: WriteLine("}"), return
RClose ==
    /\ backend = "r" /\ tpc = "close"
    /\ EmitOps(<<W(<<"}">>)>>)
    /\ Step("close")
    /\ tresult' = TSuccess(Buffer')
    /\ tpc' = "done"
    /\ UNCHANGED <<backend, tprog, runs, galaxyTool>>
    /\ UNCHANGED <<pvars, lvars, cvars>>

\* NextflowTranspiler.Transpile: Buffer.Reset, writeWorkflowHeader
NfWriteWorkflowHeader ==
    /\ backend = "nextflow" /\ tpc = "Transpile"
    /\ ResetAndEmit(nfWriteWorkflowHeader(tprog))
    /\ Step("writeWorkflowHeader")
    /\ tpc' = "writeParameters"
    /\ UNCHANGED <<backend, tprog, runs, galaxyTool, tresult>>
    /\ UNCHANGED <<pvars, lvars, cvars>>

NfWriteParameters ==
    /\ backend = "nextflow" /\ tpc = "writeParameters"
    /\ EmitOps(nfWriteParameters(tprog.Parameters))
    /\ Step("writeParameters")
    /\ tpc' = "processImplementations"
    /\ UNCHANGED <<backend, tprog, runs, galaxyTool, tresult>>
    /\ UNCHANGED <<pvars, lvars, cvars>>

\* NextflowTranspiler.Transpile: writeWorkflow, return
NfWriteWorkflow ==
    /\ backend = "nextflow" /\ tpc = "writeWorkflow"
    /\ EmitOps(nfWriteWorkflow(tprog))
    /\ Step("writeWorkflow")
    /\ tresult' = TSuccess(Buffer')
    /\ tpc' = "done"
    /\ UNCHANGED <<backend, tprog, runs, galaxyTool>>
    /\ UNCHANGED <<pvars, lvars, cvars>>

\* GalaxyTranspiler.Transpile: g.galaxyTool = &galaxy.Tool{...}
GxNewTool ==
    /\ backend = "galaxy" /\ tpc = "Transpile"
    /\ galaxyTool' = Tool(tprog.Name, tprog.Name, tprog.Description)
    /\ Step("newTool")
    /\ tpc' = "writeTypeValidation"
    /\ UNCHANGED <<backend, tprog, runs, Buffer, IndentLevel, calls, tresult>>
    /\ UNCHANGED <<pvars, lvars, cvars>>

\* GalaxyTranspiler: writeTypeValidation and the error return that follows it
GxWriteTypeValidation ==
    /\ backend = "galaxy" /\ tpc = "writeTypeValidation"
    /\ LET r == gxValidateLoop(tprog.Parameters, 1, [tool |-> galaxyTool, calls |-> calls])
       IN /\ galaxyTool' = r.st.tool
          /\ calls' = r.st.calls
          /\ IF r.err # NoErr
             THEN /\ tresult' = TFailure(Wrap(MsgTypeStageGx, "", r.err))
                  /\ tpc' = "done"
             ELSE /\ tpc' = "writeOutputDefinitions"
                  /\ UNCHANGED tresult
    /\ Step("writeTypeValidation")
    /\ UNCHANGED <<backend, tprog, runs, Buffer, IndentLevel>>
    /\ UNCHANGED <<pvars, lvars, cvars>>

GxWriteOutputDefinitions ==
    /\ backend = "galaxy" /\ tpc = "writeOutputDefinitions"
    /\ galaxyTool' = writeOutputDefinitions(galaxyTool, tprog.Outputs)
    /\ Step("writeOutputDefinitions")
    /\ tpc' = "implementations"
    /\ UNCHANGED <<backend, tprog, runs, Buffer, IndentLevel, calls, tresult>>
    /\ UNCHANGED <<pvars, lvars, cvars>>

\* a Transpile whose handlers take the fields they have used out of the block
GxImplementations_consumesFields ==
    /\ backend = "galaxy" /\ tpc = "implementations"
    /\ LET tool == IF Len(tprog.Implementations) = 0
                   THEN [galaxyTool EXCEPT !.Command =
                            Command(<<[fmt |-> "echo 'No implementations provided'",
                                       arg |-> ""]>>)]
                   ELSE galaxyTool
           st   == gxImplementationLoop(tprog, 1, [tool |-> tool, calls |-> calls])
       IN /\ galaxyTool' = st.tool
          /\ calls' = st.calls
    /\ Step("implementations")
    /\ tpc' = "marshal"
    /\ tprog' = [tprog EXCEPT !.Implementations =
                   [k \in 1..Len(@) |-> [@[k] EXCEPT !.Fields = EmptyMap]]]
    /\ UNCHANGED <<backend, runs, Buffer, IndentLevel, tresult>>
    /\ UNCHANGED <<pvars, lvars, cvars>>

\* GalaxyTranspiler.Transpile: the fallback command and the loop over the blocks
GxImplementations ==
    /\ backend = "galaxy" /\ tpc = "implementations"
    /\ LET tool == IF Len(tprog.Implementations) = 0
                   THEN [galaxyTool EXCEPT !.Command =
                            Command(<<[fmt |-> "echo 'No implementations provided'",
                                       arg |-> ""]>>)]
                   ELSE galaxyTool
           st   == gxImplementationLoop(tprog, 1, [tool |-> tool, calls |-> calls])
       IN /\ galaxyTool' = st.tool
          /\ calls' = st.calls
    /\ Step("implementations")
    /\ tpc' = "marshal"
    /\ UNCHANGED <<backend, tprog, runs, Buffer, IndentLevel, tresult>>
    /\ UNCHANGED <<pvars, lvars, cvars>>

\* GalaxyTranspiler.Transpile: xml.MarshalIndent(g.galaxyTool), return
GxMarshal ==
    /\ backend = "galaxy" /\ tpc = "marshal"
    /\ Step("marshal")
    /\ tresult' = TSuccess(<<galaxyTool>>)
    /\ tpc' = "done"
    /\ UNCHANGED <<backend, tprog, runs, Buffer, IndentLevel, galaxyTool, calls>>
    /\ UNCHANGED <<pvars, lvars, cvars>>

\* BashTranspiler.Transpile and StreamFlowTranspiler.Transpile
Unimplemented ==
    /\ backend \in {"bash", "streamflow"} /\ tpc = "Transpile"
    /\ tresult' = [set |-> TRUE, ok |-> FALSE, panicked |-> TRUE, out |-> <<>>,
                   err |-> Err("unimplemented", "")]
    /\ tpc' = "done"
    /\ UNCHANGED <<backend, tprog, runs, Buffer, IndentLevel, galaxyTool, calls, stages>>
    /\ UNCHANGED <<pvars, lvars, cvars>>

\* a fresh instance from the backend's constructor and a program to transpile
InitTranspile ==
    /\ backend \in Backends
    /\ tprog \in Programs
    /\ tpc = "Transpile"
    /\ Buffer = <<>>
    /\ IndentLevel = 0
    /\ galaxyTool = NoTool
    /\ calls = <<>>
    /\ stages = <<>>
    /\ tresult = NoTResult
    /\ runs = <<>>
    /\ src = [family |-> "none"]
    /\ toks = <<>>
    /\ pc = "off"
    /\ ParseIdle
    /\ LexIdle
    /\ CliIdle

NextTranspile ==
    \/ PyWriteHeader
    \/ PyWriteFunctionHeader
    \/ RWriteDocumentation
    \/ RWriteSignature
    \/ WriteTypeValidation
    \/ WriteSecurityChecks
    \/ ProcessImplementations
    \/ PyWriteEntryPoint
    \/ RClose
    \/ NfWriteWorkflowHeader
    \/ NfWriteParameters
    \/ NfWriteWorkflow
    \/ GxNewTool
    \/ GxWriteTypeValidation
    \/ GxWriteOutputDefinitions
    \/ GxImplementations
    \/ GxMarshal
    \/ Unimplemented

SpecTranspile == InitTranspile /\ [][NextTranspile]_vars

----------------------------------------------------------------------------
(* Transpile called a second time for the same program *)

\* an Initializer that hands out one shared instance instead of a new one
NewInstance_shared ==
    /\ tpc = "done" /\ runs = <<>>
    /\ runs' = <<[fresh |-> TRUE, result |-> tresult, Buffer |-> Buffer]>>
    /\ tpc' = "Transpile"
    /\ calls' = <<>>
    /\ stages' = <<>>
    /\ tresult' = NoTResult
    /\ UNCHANGED <<backend, tprog, Buffer, IndentLevel, galaxyTool>>
    /\ UNCHANGED <<pvars, lvars, cvars>>

\* t := currentTranspiler.Initializer(): a second instance from the backend's
\* constructor is handed the same program
NewInstance ==
    /\ tpc = "done" /\ runs = <<>>
    /\ runs' = <<[fresh |-> TRUE, result |-> tresult, Buffer |-> Buffer]>>
    /\ tpc' = "Transpile"
    /\ Buffer' = <<>>
    /\ IndentLevel' = 0
    /\ galaxyTool' = NoTool
    /\ calls' = <<>>
    /\ stages' = <<>>
    /\ tresult' = NoTResult
    /\ UNCHANGED <<backend, tprog>>
    /\ UNCHANGED <<pvars, lvars, cvars>>

\* t.Transpile(program) once more on the instance that has returned: Buffer,
\* IndentLevel and galaxyTool are as the first call left them.  A panic of
\* the first call ended the process.
TranspileAgain ==
    /\ tpc = "done" /\ runs = <<>> /\ ~tresult.panicked
    /\ runs' = <<[fresh |-> FALSE, result |-> tresult, Buffer |-> Buffer]>>
    /\ tpc' = "Transpile"
    /\ calls' = <<>>
    /\ stages' = <<>>
    /\ tresult' = NoTResult
    /\ UNCHANGED <<backend, tprog, Buffer, IndentLevel, galaxyTool>>
    /\ UNCHANGED <<pvars, lvars, cvars>>

\* the programs of at most MaxParams parameters and blocks together
InitRuns ==
    /\ InitTranspile
    /\ Len(tprog.Parameters) + Len(tprog.Implementations) <= MaxParams

NextRuns ==
    \/ NextTranspile
    \/ NewInstance
    \/ TranspileAgain

SpecRuns == InitRuns /\ [][NextRuns]_vars

----------------------------------------------------------------------------
(* Lexer: the inputs handed to lexer.New and the iteration of Token() *)

\* the other character of the same kind: ")" for "(", "'" for "\"", ...
Twin(c) ==
    CASE c = "("  -> ")"
      [] c = "\"" -> "'"
      [] c = "a"  -> "_"
      [] c = "1"  -> "2"
      [] c = " "  -> "\t"
      [] OTHER    -> c

\* a lexical element as it is written, and the token it stands for
Element(type, text, lit) == [type |-> type, text |-> text, lit |-> lit]

LexSources ==
    LET Core == {"(", "a", "1", ".", "\"", "\\", ";", " ", "\n", "\r", NUL}
        Elements ==
            {Element(TOKEN_LPAREN, <<"(">>, <<"(">>),
             Element(TOKEN_RPAREN, <<")">>, <<")">>),
             Element(TOKEN_IDENTIFIER, <<"a", "b">>, <<"a", "b">>),
             Element(TOKEN_STRING, <<"\"", "a", "\"">>, <<"a">>),
             Element(TOKEN_CHARACTER, <<"'", "a", "'">>, <<"a">>),
             Element(TOKEN_NUMBER, <<"1", "2">>, <<"1", "2">>),
             Element(TOKEN_NUMBER, <<"1", ".", "2">>, <<"1", ".", "2">>),
             Element(TOKEN_COMMENT, <<";", "a">>, <<"a">>)}
        LineBreaks == {<<"\n">>, <<"\r">>, <<"\r", "\n">>}
        Separators == {<<" ">>, <<"\t">>, <<" ", " ">>} \cup LineBreaks
        \* a separator after every element but the last; a comment is always
        \* ended by a line break
        SepsOf(es) ==
            {ss \in [1..Len(es) -> Separators \cup {<<>>}] :
                \A i \in 1..Len(es) :
                    /\ es[i].type = TOKEN_COMMENT => ss[i] \in LineBreaks
                    /\ (es[i].type # TOKEN_COMMENT /\ i = Len(es)) => ss[i] = <<>>
                    /\ i < Len(es) => ss[i] # <<>>}
    IN {[family |-> "raw", elems |-> <<>>, seps |-> <<>>,
         input |-> IF twin THEN MapSeq(Twin, cs) ELSE cs] :
            cs \in SeqsUpTo(Core, MaxInput), twin \in BOOLEAN}
       \cup UNION {{[family |-> "elems", elems |-> es, seps |-> ss,
                     input |-> Cat([i \in 1..Len(es) |-> es[i].text \o ss[i]])] :
                        ss \in SepsOf(es)} :
                            es \in SeqsUpTo(Elements, MaxElems) \ {<<>>}}

\* lexer.New(input): the Lexer after its first readChar
InitLex ==
    /\ lsrc \in LexSources
    /\ lexer = readChar(Lexer(lsrc.input))
    /\ yielded = <<>>
    /\ lpc = "Token"
    /\ src = [family |-> "none"]
    /\ toks = <<>>
    /\ pc = "off"
    /\ ParseIdle
    /\ TranspileIdle
    /\ CliIdle

NextLex ==
    \/ YieldToken
    \/ YieldEOF

SpecLex == InitLex /\ [][NextLex]_vars

----------------------------------------------------------------------------
(* parseProgram called for an input and then for a variant of that input *)

\* the input without its comments
WithoutComments(ts) ==
    LET NotComment(t) == t.Type # TOKEN_COMMENT
    IN SelectSeq(ts, NotComment)

\* the input up to and including the ")" that closes its first "("; the
\* whole input when there is no such ")"
FirstForm(ts) ==
    LET opens == {i \in 1..Len(ts) : ts[i].Type = TOKEN_LPAREN}
        first == CHOOSE i \in opens : \A j \in opens : i <= j
        depth(k) == Cardinality({i \in first..k : ts[i].Type = TOKEN_LPAREN})
                    - Cardinality({i \in first..k : ts[i].Type = TOKEN_RPAREN})
        closes == {k \in 1..Len(ts) : k > first /\ depth(k) = 0}
    IN IF opens = {} \/ closes = {} THEN ts
       ELSE SubSeq(ts, 1, CHOOSE k \in closes : \A j \in closes : k <= j)

\* parseProgram(source) on another source: a new Lexer and a new Parser
parseProgram(variant, tokens) ==
    /\ tokens # toks
    /\ parses' = <<[variant |-> variant, tokens |-> toks, result |-> result]>>
    /\ toks' = tokens
    /\ pc' = "new"
    /\ ntIdx' = 1
    /\ currentToken' = ZeroToken
    /\ peekToken' = ZeroToken
    /\ errors' = <<>>
    /\ stack' = <<>>
    /\ root' = NoRoot
    /\ program' = NoProgram
    /\ bodyIdx' = 0
    /\ result' = NoResult
    /\ UNCHANGED <<src, cpc, fs, exitCode>>
    /\ UNCHANGED <<tvars, lvars>>

\* the first input has been parsed; now the same input without its comments
ParseWithoutComments ==
    /\ pc = "done" /\ parses = <<>>
    /\ parseProgram("comments", WithoutComments(toks))

\* the first input has been parsed; now the same input cut after its first form
ParseFirstFormOnly ==
    /\ pc = "done" /\ parses = <<>>
    /\ parseProgram("firstForm", FirstForm(toks))

ReparseSources ==
    LET CommentAlphabet == {LP, RP, Id("bala"), Id("x"), Str("s"), Cmt(" note")}
        Trail == {LP, RP, Id("x"), Str("s"), Token(TOKEN_ILLEGAL, "#"), Cmt(" note")}
        Forms == {<<<<Id("bala"), Id("myprog")>>, <<ParamElem("p1", "string")>>>>,
                  <<<<Id("bala"), Id("myprog")>>, <<DescElem, DockerElem>>>>,
                  <<<<Id("bala"), Id("myprog")>>, <<Elem("bad", "", "", <<>>, "")>>>>,
                  <<<<Id("foo"), Id("myprog")>>, <<ParamElem("p1", "string")>>>>}
    IN
    \* a comment added anywhere in a program
    UNION {
        LET ts == RenderProgram(BalaHead, es) IN
            {Source("mut", BalaHead, es, "addC", k, InsertAt(ts, k, Cmt(" note"))) :
                k \in 1..(Len(ts) + 1)}
        : es \in {<<ParamElem("p1", "string")>>,
                  <<DescElem, DockerElem>>,
                  <<ParamElem("p1", "string"), ParamElem("p2", "file")>>}}
    \cup
    \* arbitrary short inputs with comments
    {Source("raw", <<>>, <<>>, "none", 0, ts) : ts \in SeqsUpTo(CommentAlphabet, MaxRaw)}
    \cup
    \* a top-level form followed by more tokens
    {Source("trail", f[1], f[2], "none", 0, RenderProgram(f[1], f[2]) \o tr) :
        f \in Forms, tr \in SeqsUpTo(Trail, MaxTrail)}

InitReparse ==
    /\ src \in ReparseSources
    /\ toks = src.tokens
    /\ pc = "new"
    /\ ParseIdle
    /\ TranspileIdle
    /\ LexIdle
    /\ CliIdle

NextReparse ==
    \/ NextParse
    \/ ParseWithoutComments
    \/ ParseFirstFormOnly

SpecReparse == InitReparse /\ [][NextReparse]_vars

----------------------------------------------------------------------------
(* main: the command-line program, from its flags to its exit status *)

\* the input files main is run on
CliSources ==
    LET Volumes   == {<<"input", "/data/input">>, <<"output", "/data/output">>}
        Arguments == {"--input", "p1"}
        BadString == Elem("bad", "", "", <<>>, "")
        BadList   == Elem("badList", "", "", <<>>, "")
        WrongHeads == {<<Id("foo"), Id("myprog")>>,
                       <<Str("bala"), Id("myprog")>>,
                       <<Id("bala"), Str("myprog")>>,
                       Paren(<<Id("bala")>>) \o <<Id("myprog")>>}
        Single    == {DescElem, DockerElem, Elem("run_docker", "run_docker", "", <<>>, ""),
                      ParamElem("p2", "file"), OutputsElem(1), Elem("empty", "", "", <<>>, "")}
        Declared  == {ParamElem("p1", "string"),
                      ParamElem("p1", "boolean"),
                      ParamMeta("p1", "string", "default", "x"),
                      ParamMeta("p4", "boolean", "galaxy_data_table", "genomes"),
                      ParamElem("p4", "string")}
    IN
    \* a run_docker block with volumes and arguments in their documented forms
    {Source("fields", BalaHead, <<DockerFields(vs, as)>>, "none", 0,
            RenderProgram(BalaHead, <<DockerFields(vs, as)>>)) :
        vs \in SeqsUpTo(Volumes, MaxFields), as \in SeqsUpTo(Arguments, MaxFields)}
    \cup
    \* body elements that begin with a string or with a list, among parameters
    {Source("errs", BalaHead, es, "none", 0, RenderProgram(BalaHead, es)) :
        es \in SeqsUpTo({BadString, BadList, ParamElem("p1", "string")}, MaxBody)}
    \cup
    \* parameters, some of one name, some with metadata, and a block that
    \* passes them as arguments
    {Source("params", BalaHead, ps \o <<DockerFlat(<<"p1", "p4">>)>>, "none", 0,
            RenderProgram(BalaHead, ps \o <<DockerFlat(<<"p1", "p4">>)>>)) :
        ps \in SeqsUpTo(Declared, MaxParams)}
    \cup
    \* programs with a wrong root
    {Source("head", h, es, "none", 0, RenderProgram(h, es)) :
        h \in WrongHeads, es \in {<<ParamElem("p1", "string")>>, <<BadString>>}}
    \cup
    \* inputs that hold no program
    {Source("raw", <<>>, <<>>, "none", 0, ts) :
        ts \in SeqsUpTo({LP, RP, Id("bala"), Id("x"), Str("s")}, MaxJunk)}
    \cup
    \* programs of at most one element, among them a block without image
    {Source("struct", BalaHead, es, "none", 0, RenderProgram(BalaHead, es)) :
        es \in {<<>>} \cup {<<e>> : e \in Single}}

\* os.Exit(code) after the message msg
Exit(code, msg) ==
    /\ cpc' = msg
    /\ exitCode' = code

Exited == exitCode # -1

\* flag.Parse: -input is missing
InputFileRequired ==
    /\ cpc = "main"
    /\ Exit(1, "Error: Input file is required")
    /\ UNCHANGED <<parses, fs>>
    /\ UNCHANGED <<pvars, tvars, lvars>>

\* transpiler.GetTranspiler(targetLang) knows no such language
UnsupportedLanguage ==
    /\ cpc = "main"
    /\ Exit(1, "Error: Unsupported language")
    /\ UNCHANGED <<parses, fs>>
    /\ UNCHANGED <<pvars, tvars, lvars>>

\* os.ReadFile of the input file fails: log.Fatalf
ReadFileFails ==
    /\ cpc = "main"
    /\ Exit(1, "reading file")
    /\ UNCHANGED <<parses, fs>>
    /\ UNCHANGED <<pvars, tvars, lvars>>

\* os.ReadFile returns the data of the input file; parseProgram(string(data)) starts
ReadFile ==
    /\ cpc = "main"
    /\ cpc' = "parseProgram"
    /\ pc' = "new"
    /\ UNCHANGED <<parses, fs, exitCode>>
    /\ UNCHANGED <<src, toks, ntIdx, currentToken, peekToken, errors, stack, root,
                   program, bodyIdx, result>>
    /\ UNCHANGED <<tvars, lvars>>

\* parseProgram returned an error: log.Fatalf("parsing error: %v", err)
ParsingError ==
    /\ cpc = "parseProgram" /\ pc = "done"
    /\ ~result.ok
    /\ Exit(1, "parsing error")
    /\ UNCHANGED <<parses, fs>>
    /\ UNCHANGED <<pvars, tvars, lvars>>

\* -check: the program is printed, os.Exit(0)
SyntaxCheckPassed ==
    /\ cpc = "parseProgram" /\ pc = "done"
    /\ result.ok
    /\ Exit(0, "Syntax check passed")
    /\ UNCHANGED <<parses, fs>>
    /\ UNCHANGED <<pvars, tvars, lvars>>

\* processFile: t := currentTranspiler.Initializer(); t.Transpile(program) starts
ProcessFile ==
    /\ cpc = "parseProgram" /\ pc = "done"
    /\ result.ok
    /\ \E b \in Backends : backend' = b
    /\ tprog' = result.program
    /\ tpc' = "Transpile"
    /\ cpc' = "Transpile"
    /\ UNCHANGED <<Buffer, IndentLevel, galaxyTool, calls, stages, tresult, runs>>
    /\ UNCHANGED <<parses, fs, exitCode>>
    /\ UNCHANGED <<pvars, lvars>>

\* Transpile returned an error: "transpilation failed", os.Exit(1)
TranspilationFailed ==
    /\ cpc = "Transpile" /\ tpc = "done"
    /\ ~tresult.ok /\ ~tresult.panicked
    /\ Exit(1, "transpilation failed")
    /\ UNCHANGED <<parses, fs>>
    /\ UNCHANGED <<pvars, tvars, lvars>>

\* Transpile panicked: the Go runtime ends the process with status 2
TranspilePanicked ==
    /\ cpc = "Transpile" /\ tpc = "done"
    /\ tresult.panicked
    /\ Exit(2, "panic")
    /\ UNCHANGED <<parses, fs>>
    /\ UNCHANGED <<pvars, tvars, lvars>>

\* variant: the code is written to the output path itself
WriteTempFile_inPlace ==
    /\ cpc = "Transpile" /\ tpc = "done"
    /\ tresult.ok
    /\ \/ /\ Exit(1, "writing output")
          /\ fs' \in {fs, [fs EXCEPT !.dest = PartialFile]}
       \/ /\ fs' = [fs EXCEPT !.dest = File(tresult.out)]
          /\ cpc' = "Rename"
          /\ UNCHANGED exitCode
    /\ UNCHANGED parses
    /\ UNCHANGED <<pvars, tvars, lvars>>

\* writeFileSafely, up to os.WriteFile(path + ".tmp", data, 0644): MkdirAll or
\* the open fails and nothing is written, the write fails and the temporary
\* file holds a part of the code, or the temporary file holds all of it
WriteTempFile ==
    /\ cpc = "Transpile" /\ tpc = "done"
    /\ tresult.ok
    /\ \/ /\ Exit(1, "writing output")
          /\ fs' \in {fs, [fs EXCEPT !.temp = PartialFile]}
       \/ /\ fs' = [fs EXCEPT !.temp = File(tresult.out)]
          /\ cpc' = "Rename"
          /\ UNCHANGED exitCode
    /\ UNCHANGED parses
    /\ UNCHANGED <<pvars, tvars, lvars>>

\* writeFileSafely: os.Rename(tempFile, path) puts the temporary file in the
\* place of the output file, or fails and changes nothing
RenameTempFile ==
    /\ cpc = "Rename"
    /\ \/ /\ Exit(1, "writing output")
          /\ UNCHANGED fs
       \/ /\ fs' = [dest |-> fs.temp, temp |-> NoFile]
          /\ Exit(0, "Transpilation completed successfully")
    /\ UNCHANGED parses
    /\ UNCHANGED <<pvars, tvars, lvars>>

InitCLI ==
    /\ src \in CliSources
    /\ toks = src.tokens
    /\ pc = "off"
    /\ ParseIdle
    /\ TranspileIdle
    /\ LexIdle
    /\ parses = <<>>
    /\ cpc = "main"
    /\ fs = [dest |-> OldFile, temp |-> NoFile]
    /\ exitCode = -1

NextCLI ==
    \/ InputFileRequired
    \/ UnsupportedLanguage
    \/ ReadFileFails
    \/ ReadFile
    \/ NextParse
    \/ ParsingError
    \/ SyntaxCheckPassed
    \/ ProcessFile
    \/ NextTranspile
    \/ TranspilationFailed
    \/ TranspilePanicked
    \/ WriteTempFile
    \/ RenameTempFile

SpecCLI == InitCLI /\ [][NextCLI]_vars

----------------------------------------------------------------------------
(* What the source declares, read off the way it was written *)

ErrHas(errs, m) == \E i \in 1..Len(errs) : errs[i].Msg = m

IsParamElem(e) == e.kind \in {"param", "enumNested", "enumInline"}
IsDockerElem(e) == e.kind = "run_docker"

RECURSIVE Declared(_, _)
Declared(Keep(_), es) ==
    IF es = <<>> THEN <<>>
    ELSE (IF Keep(Head(es)) THEN <<Head(es)>> ELSE <<>>) \o Declared(Keep, Tail(es))

HasKind(es, k) == \E i \in 1..Len(es) : es[i].kind = k

\* number of entries written inside the (outputs ...) elements
RECURSIVE DeclaredOutputs(_)
DeclaredOutputs(es) ==
    IF es = <<>> THEN 0
    ELSE (IF Head(es).kind = "outputs" THEN Len(Head(es).values) ELSE 0)
         + DeclaredOutputs(Tail(es))

\* the source is a complete program (bala name (elements...)) whose every
\* element is a description, a run_docker block, a parameter, an outputs
\* element or an empty list; comments may stand between its tokens
ValidSource ==
    /\ src.family \in {"struct", "enum", "head", "mut"}
    /\ src.head = BalaHead
    /\ src.mut \in {"none", "addC"}
    /\ ~HasKind(src.elems, "bad")

ParamMatches(p, e) == p.Name = e.name /\ p.Type = e.type
BlockMatches(b, e) ==
    /\ b.Name = "run_docker"
    /\ ("image" \in DOMAIN b.Fields) = (e.image # "")
    /\ (e.image # "" => b.Fields["image"] = FString(e.image))

SameOrder(parsed, declared, Matches(_, _)) ==
    /\ Len(parsed) = Len(declared)
    /\ \A i \in 1..Len(declared) : Matches(parsed[i], declared[i])

----------------------------------------------------------------------------
C2_OutputsParsed ==
    (result.set /\ ValidSource) =>
        /\ result.ok
        /\ Len(result.program.Outputs) = DeclaredOutputs(src.elems)
        /\ Len(result.program.Parameters) = Len(Declared(IsParamElem, src.elems))
        /\ Len(result.program.Implementations) = Len(Declared(IsDockerElem, src.elems))

(* C3: every input with one more "(" token than ")" tokens fails with an   *)
(* error containing "missing closing parenthesis".                         *)
C3_OneMoreOpenFails ==
    (result.set /\ CountTok(toks, LP) = CountTok(toks, RP) + 1) =>
        /\ ~result.ok
        /\ ErrHas(result.err, MsgMissingParen)

(* C4: every input with one more ")" token than "(" tokens fails, wherever *)
(* the extra ")" stands.                                                   *)
C4_ExtraCloseFails ==
    (result.set /\ CountTok(toks, RP) = CountTok(toks, LP) + 1) => ~result.ok

(* C5: a parameter written (p (enum (v1 ... vn)) (desc d)) or              *)
(* (p enum (v1 ... vn) (desc d)) with n >= 1 parses to a Parameter of type *)
(* enum whose Constraints are exactly v1..vn in order and whose            *)
(* Description is d.                                                       *)
C5_EnumConstraints ==
    (result.set /\ src.family = "enum" /\ Len(src.elems[1].values) >= 1) =>
        /\ result.ok
        /\ Len(result.program.Parameters) = 1
        /\ result.program.Parameters[1].Type = "enum"
        /\ result.program.Parameters[1].Constraints = src.elems[1].values
        /\ result.program.Parameters[1].Description = ParamDesc(src.elems[1].name)

(* C6: ParseProgram never returns a Program that holds an enum parameter   *)
(* with zero constraints: an empty enum value list is a parse error.       *)
C6_EmptyEnumRejected ==
    result.ok =>
        \A i \in 1..Len(result.program.Parameters) :
            result.program.Parameters[i].Type = "enum"
                => Len(result.program.Parameters[i].Constraints) > 0

FirstIsBala(r) ==
    r.Children[1].Token.Type = TOKEN_IDENTIFIER /\ r.Children[1].Token.Literal = "bala"

FailedFastWith(m) ==
    /\ pc = "done"
    /\ result.set /\ ~result.ok
    /\ result.program = NoProgram
    /\ Len(result.err) = 1 /\ result.err[1].Msg = m
    /\ program = NoProgram
    /\ bodyIdx = 0

(* C7: when the root form has at least 3 children, a first child that is   *)
(* not the identifier bala makes ParseProgram fail with "program must      *)
(* start with 'bala'", and a first child bala with a second child that is  *)
(* not an identifier makes it fail with "invalid program name"; in both    *)
(* cases no Program is returned and the body is never walked.              *)
C7_RootChecksFailFast ==
    (pc \in {"walk", "done"} /\ Len(root.Children) >= 3) =>
        /\ ~FirstIsBala(root) => FailedFastWith(MsgNoBala)
        /\ (FirstIsBala(root) /\ root.Children[2].Token.Type # TOKEN_IDENTIFIER)
              => FailedFastWith(MsgBadName)

C7_Witness ==
    /\ src.family = "head"
    /\ src.head = <<Str("bala"), Id("myprog")>>
    /\ FailedFastWith(MsgNoBala)

----------------------------------------------------------------------------
(* What Transpile did, read off its ghost record and its results *)

\* the stage of the generation algorithm a step of Transpile belongs to
StageOf(step) ==
    CASE step \in {"writeHeader", "writeDocumentation", "writeWorkflowHeader", "newTool"}
            -> "header"
      [] step \in {"writeFunctionHeader", "writeSignature", "writeParameters"}
            -> "signature"
      [] step = "writeTypeValidation"    -> "validation"
      [] step = "writeSecurityChecks"    -> "guards"
      [] step \in {"processImplementations", "implementations"} -> "implementations"
      [] step \in {"writeEntryPoint", "close", "writeWorkflow", "marshal"} -> "closing"
      [] OTHER -> step

SixStages == <<"header", "signature", "validation", "guards", "implementations", "closing">>

StepTaken(step) == \E i \in 1..Len(stages) : stages[i] = step

\* the rule of the validation stage that applies to parameter p in backend b
RuleFor(b, p) ==
    IF ~p.Default.isNil THEN "default"
    ELSE IF b = "galaxy" /\ "galaxy_data_table" \in DOMAIN p.Metadata THEN "dataTable"
    ELSE IF p.Type \in TypeValidators(b) THEN "validator"
    ELSE IF b = "galaxy" THEN "abort"
    ELSE "comment"

\* the validation of parameter p ends the stage with an error
Fails(b, p) ==
    \/ RuleFor(b, p) = "abort"
    \/ RuleFor(b, p) = "validator" /\ p.Type = "enum" /\ Len(p.Constraints) = 0

\* the parameters the validation stage gets to: all of them, or those up
\* to and including the first one whose validation fails
Visited(b, params) ==
    IF \E i \in 1..Len(params) : Fails(b, params[i])
    THEN CHOOSE i \in 1..Len(params) :
            Fails(b, params[i]) /\ \A k \in 1..(i - 1) : ~Fails(b, params[k])
    ELSE Len(params)

IsValidationCall(c) == c.fn \in {"validator", "createDataTableParam"}

RECURSIVE ExpectedCalls(_, _, _, _)
ExpectedCalls(b, params, i, n) ==
    IF i > n THEN <<>>
    ELSE (CASE RuleFor(b, params[i]) = "validator" ->
                 <<[fn |-> "validator", key |-> params[i].Type, at |-> i]>>
            [] RuleFor(b, params[i]) = "dataTable" ->
                 <<[fn |-> "createDataTableParam", key |-> params[i].Type, at |-> i]>>
            [] OTHER -> <<>>)
         \o ExpectedCalls(b, params, i + 1, n)

CallsAt(fn, i) == Cardinality({k \in 1..Len(calls) : calls[k].fn = fn /\ calls[k].at = i})

NoOpComments(t) ==
    Cardinality({k \in 1..Len(Buffer) :
                    Buffer[k].text = <<"# No specific validation for type", t>>})

ErrorIs(e, m, a) == \E i \in 1..Len(e) : e[i].Msg = m /\ e[i].Arg = a

ValidationDone == backend \in {"python", "r", "galaxy"} /\ StepTaken("writeTypeValidation")

UnhandledBlocks ==
    {i \in 1..Len(tprog.Implementations) :
        tprog.Implementations[i].Name \notin {"run_docker"}}

\* Transpile got to the first block without a handler: the stages before
\* the blocks passed and the handlers of the blocks before it succeeded
ReachedBlock(j) ==
    /\ StepTaken("processImplementations") \/ StepTaken("implementations")
    /\ \A k \in 1..(j - 1) : FieldString(tprog.Implementations[k], "image").ok

----------------------------------------------------------------------------
(* C8: every backend whose Transpile returns its text went through the six *)
(* stages header, signature/declaration, per-parameter type validation,    *)
(* guards, implementation blocks, closing, in this order, none skipped.    *)
C8_SixStagesInOrder ==
    tresult.ok => MapSeq(StageOf, stages) = SixStages

(* C9: the validation stage of Python, R and Galaxy visits the parameters  *)
(* in declaration order up to the first one whose validation fails, and    *)
(* handles each visited one by exactly one rule: a Default gets nothing;   *)
(* in Galaxy a parameter without Default that carries galaxy_data_table    *)
(* becomes a data-table select and no validator runs, whatever its type;   *)
(* a registered type has its validator invoked exactly once; an            *)
(* unregistered type gives one no-op comment in Python and R and aborts    *)
(* Galaxy with "no validator registered for type '<type>'".                *)
C9_OneRulePerVisitedParameter ==
    ValidationDone =>
        LET params == tprog.Parameters
            n      == Visited(backend, params)
        IN /\ SelectSeq(calls, IsValidationCall) = ExpectedCalls(backend, params, 1, n)
           /\ \A t \in {"weird"} :
                 NoOpComments(t) =
                    Cardinality({i \in 1..n : /\ RuleFor(backend, params[i]) = "comment"
                                              /\ params[i].Type = t})
           /\ \A i \in 1..n :
                 RuleFor(backend, params[i]) = "abort" =>
                    /\ tresult.set /\ ~tresult.ok
                    /\ ErrorIs(tresult.err, MsgNoValidator, params[i].Type)

C9_Witness ==
    /\ backend = "galaxy"
    /\ tpc = "writeOutputDefinitions"
    /\ Len(tprog.Parameters) = 2
    /\ RuleFor(backend, tprog.Parameters[1]) = "default"
    /\ RuleFor(backend, tprog.Parameters[2]) = "dataTable"
    /\ calls = <<[fn |-> "createDataTableParam", key |-> "file", at |-> 2]>>

(* C9 as stated: every parameter of the program is handled by one of three *)
(* rules: with a Default no validator runs; without Default and with a     *)
(* registered validator, that validator is invoked exactly once; without   *)
(* Default and without validator, Python and R write the no-op comment     *)
(* and Galaxy aborts with "no validator registered for type '<type>'".     *)
C9_Original ==
    (ValidationDone /\ tpc # "writeTypeValidation") =>
        \A i \in 1..Len(tprog.Parameters) :
            LET p == tprog.Parameters[i] IN
            /\ ~p.Default.isNil => CallsAt("validator", i) = 0
            /\ (p.Default.isNil /\ p.Type \in TypeValidators(backend))
                  => CallsAt("validator", i) = 1
            /\ (p.Default.isNil /\ p.Type \notin TypeValidators(backend)) =>
                  IF backend = "galaxy"
                  THEN ~tresult.ok /\ ErrorIs(tresult.err, MsgNoValidator, p.Type)
                  ELSE NoOpComments(p.Type) >= 1

(* C10: in every backend whose Transpile returns, a program holding a      *)
(* block whose name has no registered handler is never transpiled with     *)
(* success, and when Transpile gets to the first such block it fails with  *)
(* "no handler registered for implementation type '<name>'".               *)
C10_MissingHandlerFails ==
    (tresult.set /\ ~tresult.panicked /\ UnhandledBlocks # {}) =>
        LET j == CHOOSE i \in UnhandledBlocks : \A k \in UnhandledBlocks : i <= k
        IN /\ ~tresult.ok
           /\ ReachedBlock(j) =>
                 ErrorIs(tresult.err, MsgNoHandler, tprog.Implementations[j].Name)

----------------------------------------------------------------------------
(* Programs that generation has to reject or to answer with a fallback *)

NoImage(blk) ==
    blk.Name = "run_docker"
    /\ (~FieldString(blk, "image").ok \/ FieldString(blk, "image").s = "")

EmptyEnum(p) == p.Type = "enum" /\ Len(p.Constraints) = 0 /\ p.Default.isNil

BuiltinTypes ==
    {"string", "number", "integer", "boolean", "file", "directory", "character", "enum"}

\* the returned artifact holds the backend's "no implementation" statement
HasFallback(b, out) ==
    CASE b = "galaxy" ->
            /\ Len(out) = 1
            /\ out[1].Command =
                  Command(<<[fmt |-> "echo 'No implementations provided'", arg |-> ""]>>)
      [] b \in {"python", "r", "nextflow"} ->
            \E k \in 1..Len(out) :
                out[k].text \in {<<"raise NotImplementedError No implementation defined">>,
                                 <<"stop No implementation defined">>,
                                 <<"throw new Exception No implementation defined">>}
      [] OTHER -> FALSE

(* C11: in every backend whose Transpile returns, a program holding a      *)
(* run_docker block without image (or with an empty one) is never          *)
(* transpiled with success and no generated text is returned for it.       *)
C11_MissingImageFails ==
    (tresult.set /\ ~tresult.panicked
       /\ \E i \in 1..Len(tprog.Implementations) : NoImage(tprog.Implementations[i]))
    => (~tresult.ok /\ tresult.out = <<>>)

(* C12: in every backend whose Transpile returns, a program holding an     *)
(* enum parameter with zero constraints and no default is never            *)
(* transpiled with success.                                                *)
C12_EmptyEnumFails ==
    (tresult.set /\ ~tresult.panicked
       /\ \E i \in 1..Len(tprog.Parameters) : EmptyEnum(tprog.Parameters[i]))
    => ~tresult.ok

(* C13: the instance every registered constructor makes has a validator    *)
(* for each of the eight built-in types, and Transpile of a program that   *)
(* uses only these types never fails with "no validator registered".       *)
C13_BuiltinTypesHaveValidators ==
    /\ BuiltinTypes \subseteq TypeValidators(backend)
    /\ (tresult.set /\ \A i \in 1..Len(tprog.Parameters) :
                          tprog.Parameters[i].Type \in BuiltinTypes)
          => \A t \in BuiltinTypes : ~ErrorIs(tresult.err, MsgNoValidator, t)

(* C14: for a program with zero implementation blocks every backend's      *)
(* Transpile returns success and its output holds the backend's "no        *)
(* implementation" fallback statement.                                     *)
C14_ZeroBlocksFallback ==
    (tresult.set /\ Len(tprog.Implementations) = 0)
    => (tresult.ok /\ HasFallback(backend, tresult.out))

----------------------------------------------------------------------------
(* Errors of validators and handlers, and what a second call finds *)

\* a validator, or a handler, that was invoked has returned an error
ValidatorFailed ==
    \E k \in 1..Len(calls) :
        calls[k].fn = "validator" /\ EmptyEnum(tprog.Parameters[calls[k].at])
HandlerFailed ==
    \E k \in 1..Len(calls) :
        calls[k].fn = "handler" /\ NoImage(tprog.Implementations[calls[k].at])

Texts(buf) == [k \in 1..Len(buf) |-> buf[k].text]

(* C15: when a validator or a handler returns an error, Transpile returns  *)
(* at that step with an empty output and an error that names the stage     *)
(* (type validation / implementation handling) and wraps the cause; and a  *)
(* second Transpile on the same instance starts from an empty buffer, so   *)
(* it ends with the lines of this call only.                               *)
C15_ErrorStopsAndBufferReset ==
    /\ (tresult.set /\ (ValidatorFailed \/ HandlerFailed)) =>
          /\ ~tresult.ok /\ tresult.out = <<>>
          /\ Len(tresult.err) >= 2
          /\ tresult.err[1].Msg =
                (IF ValidatorFailed THEN (IF backend = "galaxy" THEN MsgTypeStageGx
                                                                ELSE MsgTypeStage)
                 ELSE MsgImplStage)
          /\ stages[Len(stages)] =
                (IF ValidatorFailed THEN "writeTypeValidation" ELSE "processImplementations")
    /\ (tpc = "done" /\ runs # <<>> /\ ~runs[1].fresh) =>
          Texts(Buffer) = Texts(runs[1].Buffer)

----------------------------------------------------------------------------
----------------------------------------------------------------------------
(* C17: no step of Transpile, of any backend, handler or validator,        *)
(* changes the Program it was given: name, description, parameters,        *)
(* blocks with their field maps, metadata and outputs stay as they were,   *)
(* whether Transpile returns with success or with an error.                *)
C17_ProgramNeverModified == [][tprog' = tprog]_vars

C17_Witness ==
    /\ tresult.ok
    /\ backend = "galaxy"
    /\ \E k \in 1..Len(calls) : calls[k].fn = "handler"
    /\ "arguments" \in DOMAIN tprog.Implementations[1].Fields
    /\ Len(tprog.Parameters) = 2

----------------------------------------------------------------------------
(* The token sequence of Lexer.Token() *)

\* C18: for every source text the sequence yielded by Token() is finite (never
\* longer than the input plus the end-of-input token) and ends with exactly
\* one EOF: no token before the last is EOF, the iteration is done exactly
\* when EOF has been yielded, every token before EOF consumed at least one
\* input character, and no read function indexes outside the input.
C18_TokensEndWithOneEOF ==
    /\ lpc # "panic"
    /\ ~lexer.panicked
    /\ Len(yielded) <= Len(lsrc.input) + 1
    /\ lpc = "done" => yielded # <<>>
    /\ \A i \in 1..Len(yielded) :
        /\ yielded[i].Type = TOKEN_EOF <=> (lpc = "done" /\ i = Len(yielded))
        /\ yielded[i].Type # TOKEN_EOF => yielded[i].next > yielded[i].first

\* a finished iteration over an identifier and a number
C18_Witness ==
    /\ lpc = "done"
    /\ Len(yielded) = 3
    /\ \E i \in 1..2 : yielded[i].Type = TOKEN_IDENTIFIER
    /\ \E i \in 1..2 : yielded[i].Type = TOKEN_NUMBER
    /\ yielded[3].Type = TOKEN_EOF

\* C19: for a sequence of parentheses, identifiers, quoted strings, quoted
\* characters, numbers and comments separated by non-empty runs of space,
\* tab, newline, carriage return or carriage return plus newline, Token()
\* yields one token per element, in order, with the element's type and its
\* literal without delimiters, and then EOF.
C19_WhitespaceInsignificant ==
    (lsrc.family = "elems" /\ lpc = "done") =>
        /\ Len(yielded) = Len(lsrc.elems) + 1
        /\ \A i \in 1..Len(lsrc.elems) :
            /\ yielded[i].Type = lsrc.elems[i].type
            /\ yielded[i].Literal = lsrc.elems[i].lit
        /\ yielded[Len(yielded)].Type = TOKEN_EOF

\* every line of the input ends with newline or carriage return plus newline
PlainLineEndings(inp) ==
    \A k \in 1..Len(inp) :
        /\ inp[k] # NUL
        /\ inp[k] = "\r" => (k < Len(inp) /\ inp[k + 1] = "\n")

\* the 1-based line and column of the character at offset pos
LineAt(inp, pos) == 1 + Cardinality({k \in 1..pos : inp[k] = "\n"})
ColumnAt(inp, pos) ==
    LET breaks == {k \in 1..pos : inp[k] = "\n"}
    IN pos + 1 - (IF breaks = {} THEN 0 ELSE CHOOSE k \in breaks : \A j \in breaks : j <= k)

\* C20: with newline or carriage-return-plus-newline line endings, every
\* token's Line and Column are the 1-based line and column of the token's
\* first character, on the first line and on every later line.
C20_LineColumnOfFirstChar ==
    PlainLineEndings(lsrc.input) =>
        \A i \in 1..Len(yielded) :
            yielded[i].Type # TOKEN_EOF =>
                /\ yielded[i].Line = LineAt(lsrc.input, yielded[i].first)
                /\ yielded[i].Column = ColumnAt(lsrc.input, yielded[i].first)

----------------------------------------------------------------------------
(* Indentation across Transpile calls *)

\* C28: every backend changes the indentation level in matching pairs: no
\* line is written at a negative level and the level is never negative, a
\* Transpile that returns its text leaves the level of a fresh instance at
\* 0, and a second Transpile on the same instance for the same program
\* returns the text the first one returned.
C28_IndentationInPairs ==
    /\ IndentLevel >= 0
    /\ \A i \in 1..Len(Buffer) : Buffer[i].indent >= 0
    /\ (tresult.set /\ tresult.ok /\ runs = <<>>) => IndentLevel = 0
    /\ (tresult.set /\ tresult.ok /\ runs # <<>> /\ ~runs[1].fresh /\ runs[1].result.ok) =>
            tresult.out = runs[1].result.out

----------------------------------------------------------------------------
(* ParseProgram on an input and on a variant of it *)

----------------------------------------------------------------------------
(* The output file of the command-line program *)

\* reading, parsing, transpiling or writing the temporary file has failed
CliFailed ==
    \/ cpc \in {"Error: Input file is required", "Error: Unsupported language",
                "reading file"}
    \/ result.set /\ ~result.ok /\ cpc # "parseProgram"
    \/ tresult.set /\ ~tresult.ok /\ cpc # "Transpile"
    \/ fs.temp = PartialFile
    \/ cpc = "writing output"

(* C24: the output path never holds a part of the code: it holds what it   *)
(* held before main ran, or, after a rename that follows a successful      *)
(* parse, a successful Transpile and a complete write of the temporary     *)
(* file, all of the code.  When reading, parsing, transpiling or writing   *)
(* the temporary file fails, the output path holds what it held before and *)
(* the exit status is not zero.                                            *)
C24_OutputReplacedOnlyByRename ==
    /\ fs.dest \in {OldFile, File(tresult.out)}
    /\ fs.dest # OldFile =>
          /\ result.ok /\ tresult.ok
          /\ cpc = "Transpilation completed successfully"
          /\ fs.temp = NoFile
          /\ exitCode = 0
    /\ CliFailed => /\ fs.dest = OldFile
                    /\ Exited /\ exitCode # 0

C24_Witness ==
    /\ exitCode = 0
    /\ fs.dest = File(tresult.out)
    /\ tresult.out # <<>>
    /\ backend = "python"

----------------------------------------------------------------------------
(* Fields of a run_docker block written in their documented forms *)

(* C23: a run_docker block written as (volumes ((h1 c1) ... (hn cn))) and  *)
(* (arguments (a1 ... am)) parses to a block whose volumes field is the    *)
(* list of the n pairs <<hi, ci>> in source order and whose arguments      *)
(* field is the list of the m literals in source order, nothing else.      *)
C23_DocumentedFieldsParsed ==
    (src.family = "fields" /\ result.set) =>
        /\ result.ok
        /\ Len(result.program.Implementations) = 1
        /\ LET blk == result.program.Implementations[1] IN
           /\ {"volumes", "arguments"} \subseteq DOMAIN blk.Fields
           /\ blk.Fields["volumes"] = FPairs(src.elems[1].volumes)
           /\ blk.Fields["arguments"] = FList(src.elems[1].values)

----------------------------------------------------------------------------
(* Body elements that begin with something else than an identifier *)

\* the body elements of the source that do not begin with an identifier
Unexpected(elems) ==
    LET NoIdentifier(e) == e.kind \in {"bad", "badList"}
    IN SelectSeq(elems, NoIdentifier)

(* C27: when k >= 1 body elements begin with a token that is not an        *)
(* identifier, ParseProgram returns no Program and one error made of       *)
(* exactly k "unexpected token <type> in program body" messages, one per   *)
(* such element, in source order, and the elements after the first such    *)
(* element are still processed.                                            *)
C27_AllBodyErrorsReported ==
    (src.family = "errs" /\ Len(Unexpected(src.elems)) >= 1 /\ result.set) =>
        LET bad == Unexpected(src.elems) IN
        /\ ~result.ok
        /\ result.program = NoProgram
        /\ Len(result.err) = Len(bad)
        /\ \A i \in 1..Len(bad) :
              /\ result.err[i].Msg = MsgUnexpected
              /\ result.err[i].Arg = IF bad[i].kind = "bad" THEN TOKEN_STRING
                                     ELSE TOKEN_LPAREN
        /\ Len(program.Parameters) = Len(src.elems) - Len(bad)

C27_Witness ==
    /\ src.family = "errs"
    /\ Len(src.elems) = 3
    /\ src.elems[1].kind = "badList"
    /\ src.elems[2].kind = "param"
    /\ src.elems[3].kind = "bad"
    /\ result.set
    /\ Len(result.err) = 2
    /\ result.err[1].Arg = TOKEN_LPAREN
    /\ result.err[2].Arg = TOKEN_STRING
    /\ Len(program.Parameters) = 1

----------------------------------------------------------------------------
(* (default v) of a parameter *)

\* the default values written in the signature lines of the generated code
SignatureDefaults ==
    LET n == Len(tprog.Parameters)
        defaultsOf(line) ==
            CASE line.text # <<>> /\ line.text[1] = "def" ->
                    {line.text[2 + 3 * i] : i \in 1..n}
              [] line.text # <<>> /\ line.text[1] = "<- function(" ->
                    {line.text[2 + 2 * i] : i \in 1..n}
              [] line.text # <<>> /\ line.text[1] = "params. =" -> {line.text[4]}
              [] OTHER -> {}
    IN UNION {defaultsOf(Buffer[k]) : k \in 1..Len(Buffer)}

----------------------------------------------------------------------------
(* Parameters that share a name *)

\* the type of the last parameter named name
LastTypeOf(name, params) ==
    LET named == {j \in 1..Len(params) : params[j].Name = name}
    IN params[CHOOSE j \in named : \A k \in named : k <= j].Type

BufferHas(text) == \E k \in 1..Len(Buffer) : Buffer[k].text = text

(* C22: the parameters of a program that share a name are all kept in      *)
(* Program.Parameters, in source order, and a lookup by name resolves to   *)
(* the last one parsed: GetParamType returns its type, and the Python      *)
(* handler renders an argument that names it according to that type.       *)
C22_LastParsedWins ==
    (src.family = "params" /\ result.ok) =>
        LET params == result.program.Parameters IN
        /\ Len(params) = Len(src.elems) - 1
        /\ \A i \in 1..Len(params) :
              /\ params[i].Name = src.elems[i].name
              /\ params[i].Type = src.elems[i].type
        /\ \A i \in 1..Len(params) :
              GetParamType(params[i].Name, params) = LastTypeOf(params[i].Name, params)
        /\ (backend = "python" /\ tresult.ok /\ IsParamReference("p1", params)) =>
              (BufferHas(<<"if", "p1">>) <=> LastTypeOf("p1", params) = "boolean")

----------------------------------------------------------------------------
(* Galaxy: parameters bound to a data table *)

\* the parameters without Default that carry galaxy_data_table metadata
DataTableParams ==
    {i \in 1..Len(tprog.Parameters) :
        /\ tprog.Parameters[i].Default.isNil
        /\ "galaxy_data_table" \in DOMAIN tprog.Parameters[i].Metadata}

(* C25: in Galaxy a parameter without Default that carries                 *)
(* galaxy_data_table metadata becomes a select input bound to that table,  *)
(* with the columns name, value and path, and the validator of its type    *)
(* does not run, whatever the type; every argument of a run_docker block   *)
(* that names the parameter is rendered as $<name>.fields.path.            *)
C25_DataTableParameter ==
    backend = "galaxy" =>
        \A i \in DataTableParams :
            LET p == tprog.Parameters[i] IN
            /\ (StepTaken("writeTypeValidation") /\ i <= Visited(backend, tprog.Parameters)) =>
                  /\ CallsAt("validator", i) = 0
                  /\ \E k \in 1..Len(galaxyTool.Param) :
                        LET q == galaxyTool.Param[k] IN
                        /\ q.Type = "select"
                        /\ q.Name = p.Name
                        /\ q.FromDataTable = p.Metadata["galaxy_data_table"]
                        /\ {q.Columns[c].Name : c \in 1..Len(q.Columns)}
                              = {"name", "value", "path"}
            /\ (StepTaken("implementations") /\ Len(tprog.Implementations) = 1
                  /\ ~NoImage(tprog.Implementations[1])) =>
                  LET args == FieldSlice(tprog.Implementations[1], "arguments").l IN
                  \A a \in 1..Len(args) :
                      args[a] = p.Name =>
                         /\ a <= Len(galaxyTool.Command.Value)
                         /\ galaxyTool.Command.Value[a]
                               = [fmt |-> "$%s.fields.path", arg |-> p.Name]

----------------------------------------------------------------------------
(* Quoted strings and characters *)

\* the 1-based indexes from start on that hold the quote q and do not come
\* directly after a backslash
ClosingQuotes(inp, start, q) ==
    {k \in start..Len(inp) : inp[k] = q /\ inp[k - 1] # "\\"}

(* C26: the literal of a token that starts with a double or single quote   *)
(* is the text after the opening quote up to the first same quote that     *)
(* does not come directly after a backslash.  Without such a quote the     *)
(* literal is all of the remaining input, the token is still a STRING or   *)
(* CHARACTER token, the token after it is EOF and the lexer does not fail. *)
C26_QuotedLiteral ==
    /\ lpc # "panic"
    /\ \A i \in 1..Len(yielded) :
          LET tok    == yielded[i]
              inp    == lsrc.input
              open   == tok.first + 1
              closes == ClosingQuotes(inp, open + 1, inp[open])
          IN (tok.Type # TOKEN_EOF /\ inp[open] \in {"\"", "'"}) =>
                /\ tok.Type = IF inp[open] = "\"" THEN TOKEN_STRING ELSE TOKEN_CHARACTER
                /\ IF closes # {}
                   THEN tok.Literal =
                           SubSeq(inp, open + 1,
                                  (CHOOSE k \in closes : \A j \in closes : k <= j) - 1)
                   ELSE /\ tok.Literal = SubSeq(inp, open + 1, Len(inp))
                        /\ i < Len(yielded) => yielded[i + 1].Type = TOKEN_EOF

====
